---- MODULE Spec2Model ----
(***************************************************************************)
(* note-mark: the lexer pipeline (Lexer, TextJoiner, SpaceCutter) and the  *)
(* recursive-descent parser (Executor), as state machines over bounded    *)
(* inputs.                                                                 *)
(*                                                                         *)
(* The iterator adaptors of lexer.rs are pull-based; since every stage is  *)
(* a pure function of the stage below it, the pipeline is run stage by     *)
(* stage here: each stage's next() is one action, and a stage starts when  *)
(* the stage below it has returned None.                                   *)
(***************************************************************************)
EXTENDS Integers, Sequences, FiniteSets, TLC

VARIABLES
    input,      \* Lexer.input: the text, a sequence of characters
    cursor,     \* Lexer.cursor
    raw,        \* tokens yielded by Lexer so far
    jiter,      \* TextJoiner.iter: what the joiner has not consumed yet
    joined,     \* tokens yielded by TextJoiner so far
    citer,      \* SpaceCutter.iter: what the cutter has not consumed yet
    cut,        \* tokens yielded by SpaceCutter so far (the result of lex())
    riter,      \* iter of a second TextJoiner run over the joiner's own output
    rejoined,   \* tokens yielded by that second TextJoiner
    lpc,        \* stage of the lexer pipeline
    tokens,     \* Executor: the token vector handed to Parser::parse
    config,     \* Executor.config
    rest,       \* block_tree: the local `rest` of the top-level call
    prev,       \* block_tree: `rest` as it was before the last production
    tree,       \* block_tree: tree.root of the top-level call
    ppc,        \* stage of the parser
    call,       \* the function of Executor that is called
    flag,       \* the bool argument of the call: `format` of reduce_indent,
                \* `trim` of maybe_block_item
    maker,      \* MakeToc: `self` of make_toc (level, list_type)
    document,   \* make_toc: input.root, the nodes of the document
    node,       \* make_toc: position of the iterator over input.root
    set,        \* make_toc: the ids handed out so far
    list,       \* make_toc: the (level, text, id) entries collected so far
    toc,        \* make_toc: root of the returned DocumentNode
    tpc         \* stage of make_toc

lexvars == <<input, cursor, raw, jiter, joined, citer, cut, riter, rejoined, lpc>>
parsevars == <<tokens, config, rest, prev, tree, ppc, call, flag>>
tocvars == <<maker, document, node, set, list, toc, tpc>>
vars == <<input, cursor, raw, jiter, joined, citer, cut, riter, rejoined, lpc,
          tokens, config, rest, prev, tree, ppc, call, flag,
          maker, document, node, set, list, toc, tpc>>

(***************************************************************************)
(* Bounds of the model.                                                    *)
(***************************************************************************)
MaxLen == 4
MaxEscTail == 1
MaxTokens == 3
MaxPounds == 7
MaxBody == 3
MaxTail == 4
MaxLines == 3
MaxInline == 5

MaxNodes == 4

MaxUnit == 3

MaxIndent == 4

MaxIndentLines == 2

MaxWhite == 1

(***************************************************************************)
(* Generic helpers on sequences.                                           *)
(***************************************************************************)
SeqsUpTo(S, n) == UNION {[1..k -> S] : k \in 0..n}

Drop(s, n) == SubSeq(s, n + 1, Len(s))

Take(s, n) == SubSeq(s, 1, n)

Last(s) == s[Len(s)]

(***************************************************************************)
(* Characters.  U3042 stands for a codepoint of three UTF-8 bytes; every   *)
(* other character of the model is one byte wide.                          *)
(***************************************************************************)
U3042 == "U+3042"

\* The backquote character, written by name.
Backquote == "backquote"

len_utf8(c) == IF c = U3042 THEN 3 ELSE 1

Punctuation ==
    {"#", "*", ":", Backquote, ">", "-", "|", ".", "(", ")", "{", "}", "[", "]"}

AllChars == Punctuation \cup {" ", "\t", "\n", "\r", "\\", "a", "1", U3042}

LexChars == {"#", "\\", "a", " ", "\t", "\n", "\r", U3042}

\* A lexer in which a backslash does not escape the dot.
MisEscapable == Punctuation \ {"."}

Escapable == Punctuation \cup {"\\"}

\* The kind of the token a character starts, the two-character forms aside.
KindOf(c) ==
    CASE c = "#" -> "Pound"
      [] c = "*" -> "Star"
      [] c = ":" -> "Colon"
      [] c = Backquote -> "Backquote"
      [] c = ">" -> "Gt"
      [] c = "-" -> "Hyphen"
      [] c = "|" -> "VerticalBar"
      [] c = "." -> "Dot"
      [] c = "(" -> "OpenParen"
      [] c = ")" -> "CloseParen"
      [] c = "{" -> "OpenBrace"
      [] c = "}" -> "CloseBrace"
      [] c = "[" -> "OpenBracket"
      [] c = "]" -> "CloseBracket"
      [] c = " " -> "Space"
      [] c = "\t" -> "Tab"
      [] c = "\n" -> "Break"
      [] OTHER -> "Text"

Token(kind, start, len) == [kind |-> kind, start |-> start, len |-> len]

range_end(t) == t.start + t.len

\* Byte offset of the character with 0-based character index k in inp:
\* the first component of the k-th element of char_indices().
RECURSIVE ByteIndex(_, _)
ByteIndex(inp, k) ==
    IF k = 0 THEN 0 ELSE ByteIndex(inp, k - 1) + len_utf8(inp[k])

ByteLen(inp) == ByteIndex(inp, Len(inp))

(***************************************************************************)
(* Lexer::next.  char_indices().skip(self.cursor) skips `cursor`           *)
(* characters, while cursor is advanced by byte lengths.                   *)
(***************************************************************************)
None == [some |-> FALSE, tok |-> Token("Text", 0, 0), cursor |-> 0]

Some(tok, cur) == [some |-> TRUE, tok |-> tok, cursor |-> cur]

\* Lexer::next with the escapes of MisEscapable.
MisLexerNext(inp, cur) ==
    IF cur >= Len(inp) THEN None
    ELSE LET c == inp[cur + 1]
             index == ByteIndex(inp, cur)
             len == len_utf8(c)
             hasNext == cur + 2 <= Len(inp)
             c2 == inp[cur + 2]
         IN  CASE c = "\r" ->
                    IF hasNext /\ c2 = "\n"
                    THEN Some(Token("Break", index, len + len_utf8(c2)),
                              cur + len + len_utf8(c2))
                    ELSE Some(Token("Text", index, len), cur + len)
               [] c = "\\" ->
                    IF hasNext /\ c2 \in MisEscapable
                    THEN Some(Token("Text", index + len, len_utf8(c2)),
                              cur + len + len_utf8(c2))
                    ELSE Some(Token("Text", index, len), cur + len)
               [] OTHER -> Some(Token(KindOf(c), index, len), cur + len)

LexerNext(inp, cur) ==
    IF cur >= Len(inp) THEN None
    ELSE LET c == inp[cur + 1]
             index == ByteIndex(inp, cur)
             len == len_utf8(c)
             hasNext == cur + 2 <= Len(inp)
             c2 == inp[cur + 2]
         IN  CASE c = "\r" ->
                    IF hasNext /\ c2 = "\n"
                    THEN Some(Token("Break", index, len + len_utf8(c2)),
                              cur + len + len_utf8(c2))
                    ELSE Some(Token("Text", index, len), cur + len)
               [] c = "\\" ->
                    IF hasNext /\ c2 \in Escapable
                    THEN Some(Token("Text", index + len, len_utf8(c2)),
                              cur + len + len_utf8(c2))
                    ELSE Some(Token("Text", index, len), cur + len)
               [] OTHER -> Some(Token(KindOf(c), index, len), cur + len)

\* Lexer driven to exhaustion from a cursor: what collect() gathers.
RECURSIVE LexerAll(_, _)
LexerAll(inp, cur) ==
    LET r == LexerNext(inp, cur)
    IN  IF r.some THEN <<r.tok>> \o LexerAll(inp, r.cursor) ELSE <<>>

(***************************************************************************)
(* TextJoiner::next over a Peekable: `iter` is what is left to consume.    *)
(***************************************************************************)
\* Length of the leading run of Text tokens of s.
RECURSIVE TextRun(_)
TextRun(s) ==
    IF s # <<>> /\ s[1].kind = "Text" THEN 1 + TextRun(Tail(s)) ELSE 0

RECURSIVE SumLen(_)
SumLen(s) == IF s = <<>> THEN 0 ELSE s[1].len + SumLen(Tail(s))

JoinNone == [some |-> FALSE, tok |-> Token("Text", 0, 0), iter |-> <<>>]

\* A joiner that merges two Text tokens at most.
MisTextJoinerNext(iter) ==
    IF iter = <<>> THEN JoinNone
    ELSE LET token == iter[1]
             n == IF TextRun(iter) > 2 THEN 2 ELSE TextRun(iter)
         IN  IF token.kind = "Text"
             THEN [some |-> TRUE,
                   tok |-> Token("Text", token.start, SumLen(Take(iter, n))),
                   iter |-> Drop(iter, n)]
             ELSE [some |-> TRUE, tok |-> token, iter |-> Tail(iter)]

TextJoinerNext(iter) ==
    IF iter = <<>> THEN JoinNone
    ELSE LET token == iter[1]
             n == TextRun(iter)
         IN  IF token.kind = "Text"
             THEN [some |-> TRUE,
                   tok |-> Token("Text", token.start, SumLen(Take(iter, n))),
                   iter |-> Drop(iter, n)]
             ELSE [some |-> TRUE, tok |-> token, iter |-> Tail(iter)]

RECURSIVE TextJoinerAll(_)
TextJoinerAll(iter) ==
    LET r == TextJoinerNext(iter)
    IN  IF r.some THEN <<r.tok>> \o TextJoinerAll(r.iter) ELSE <<>>

(***************************************************************************)
(* SpaceCutter::next over a PeekMoreIterator.                              *)
(***************************************************************************)
IsBlank(t) == t.kind \in {"Space", "Tab"}

\* Length of the leading run of Space/Tab tokens of s: the first n for which
\* peek_nth(n) is not Space | Tab.
RECURSIVE BlankRun(_)
BlankRun(s) ==
    IF s # <<>> /\ IsBlank(s[1]) THEN 1 + BlankRun(Tail(s)) ELSE 0

\* A cutter that keeps a blank line at the end of the stream.
MisSpaceCutterNext(iter) ==
    IF iter = <<>> THEN JoinNone
    ELSE LET token == iter[1]
             after == Tail(iter)
             n == BlankRun(after)
         IN  IF token.kind = "Break" /\ after # <<>> /\ after[1].kind # "Break"
             THEN IF n < Len(after) /\ after[n + 1].kind = "Break"
                  THEN [some |-> TRUE, tok |-> token, iter |-> Drop(after, n)]
                  ELSE [some |-> TRUE, tok |-> token, iter |-> after]
             ELSE [some |-> TRUE, tok |-> token, iter |-> after]

SpaceCutterNext(iter) ==
    IF iter = <<>> THEN JoinNone
    ELSE LET token == iter[1]
             after == Tail(iter)
             n == BlankRun(after)
         IN  IF token.kind = "Break" /\ after # <<>> /\ after[1].kind # "Break"
             THEN IF n = Len(after) \/ after[n + 1].kind = "Break"
                  THEN \* self.iter.nth(n - 1): n >= 1 here, n elements go
                       [some |-> TRUE, tok |-> token, iter |-> Drop(after, n)]
                  ELSE [some |-> TRUE, tok |-> token, iter |-> after]
             ELSE [some |-> TRUE, tok |-> token, iter |-> after]

RECURSIVE SpaceCutterAll(_)
SpaceCutterAll(iter) ==
    LET r == SpaceCutterNext(iter)
    IN  IF r.some THEN <<r.tok>> \o SpaceCutterAll(r.iter) ELSE <<>>

\* lex(): SpaceCutter over TextJoiner over Lexer.
lex(inp) == SpaceCutterAll(TextJoinerAll(LexerAll(inp, 0)))

(***************************************************************************)
(* Executor.  A token of the parser is taken with the text it covers:      *)
(* text is self.input[token.range()], a sequence of characters.            *)
(***************************************************************************)
PToken(kind, text) == [kind |-> kind, text |-> text]

\* Executor::trim_start
RECURSIVE trim_start(_, _)
trim_start(toks, kind) ==
    IF toks = <<>> THEN toks
    ELSE IF toks[1].kind = kind THEN trim_start(Tail(toks), kind)
    ELSE toks

\* Executor::trim_end
RECURSIVE trim_end(_, _)
trim_end(toks, kind) ==
    IF toks = <<>> THEN toks
    ELSE IF Last(toks).kind = kind THEN trim_end(Take(toks, Len(toks) - 1), kind)
    ELSE toks

\* Executor::trim_white_spaces
RECURSIVE trim_white_spaces(_)
trim_white_spaces(toks) ==
    LET new_rest == trim_start(trim_start(toks, "Space"), "Tab")
    IN  IF Len(new_rest) = Len(toks) THEN toks ELSE trim_white_spaces(new_rest)

\* position(): the 0-based index of the first token of s that is a Break,
\* or -1.
RECURSIVE BreakPosition(_)
BreakPosition(s) ==
    IF s = <<>> THEN -1
    ELSE IF s[1].kind = "Break" THEN 0
    ELSE LET p == BreakPosition(Tail(s)) IN IF p < 0 THEN -1 ELSE p + 1

\* windows(2).position(): the 0-based index of the first pair of adjacent
\* Break tokens of s, or -1.
RECURSIVE BreakPairPosition(_)
BreakPairPosition(s) ==
    IF Len(s) < 2 THEN -1
    ELSE IF s[1].kind = "Break" /\ s[2].kind = "Break" THEN 0
    ELSE LET p == BreakPairPosition(Tail(s)) IN IF p < 0 THEN -1 ELSE p + 1

\* A get_line that never trims the Breaks at the start of the rest.
Mis_get_line(toks, trim) ==
    LET index == BreakPosition(toks)
    IN  IF index >= 0
        THEN <<Take(toks, index), Drop(toks, index + 1)>>
        ELSE <<trim_end(toks, "Break"), <<>>>>

\* Executor::get_line
get_line(toks, trim) ==
    LET index == BreakPosition(toks)
    IN  IF index >= 0
        THEN IF trim
             THEN <<Take(toks, index), trim_start(Drop(toks, index + 1), "Break")>>
             ELSE <<Take(toks, index), Drop(toks, index + 1)>>
        ELSE <<trim_end(toks, "Break"), <<>>>>

\* A get_paragraph that ends the paragraph at the first Break.
Mis_get_paragraph(toks) ==
    LET index == BreakPosition(toks)
    IN  IF index >= 0
        THEN <<Take(toks, index), trim_start(Drop(toks, index + 1), "Break")>>
        ELSE <<trim_end(toks, "Break"), <<>>>>

\* Executor::get_paragraph
get_paragraph(toks) ==
    LET index == BreakPairPosition(toks)
    IN  IF index >= 0
        THEN <<Take(toks, index), trim_start(Drop(toks, index + 2), "Break")>>
        ELSE <<trim_end(toks, "Break"), <<>>>>

\* IndentStyle
StyleSpace(n) == [k |-> "Space", n |-> n]

StyleTab == [k |-> "Tab", n |-> 0]

StyleBoth == [k |-> "Both", n |-> 0]

\* The width of IndentStyle::Space's count and of the counter divided by it.
U8 == 256

\* Length of the leading run of tokens of s whose kind is in K.
LeadingRun(s, K) ==
    IF \A i \in 1..Len(s) : s[i].kind \in K THEN Len(s)
    ELSE (CHOOSE i \in 1..Len(s) :
             /\ s[i].kind \notin K
             /\ \A j \in 1..(i - 1) : s[j].kind \in K) - 1

\* The counter of IndentStyle::Both: 1 for a Space, 2 for a Tab, up to the
\* first token that is neither.
BothLevel(s) ==
    LeadingRun(s, {"Space", "Tab"})
    + Cardinality({i \in 1..LeadingRun(s, {"Space", "Tab"}) : s[i].kind = "Tab"})

\* Executor::indent_level.  The division by n panics for Space(0); the
\* counter of the Space style is a u8 (wrapping as a release build does).
indent_level(toks, style) ==
    CASE style.k = "Space" ->
            LET level == LeadingRun(toks, {"Space"}) % U8
            IN  IF style.n = 0
                THEN [tag |-> "panic", level |-> 0, remainder |-> 0]
                ELSE [tag |-> "ok", level |-> level \div style.n,
                      remainder |-> level % style.n]
      [] style.k = "Tab" ->
            [tag |-> "ok", level |-> LeadingRun(toks, {"Tab"}), remainder |-> 0]
      [] OTHER ->
            LET level == BothLevel(toks)
            IN  [tag |-> "ok", level |-> level \div 2, remainder |-> level % 2]

\* &line[from..]: a panic when from is past the end of the line.
SliceFrom(line, from) ==
    IF from > Len(line) THEN [tag |-> "panic", toks |-> <<>>]
    ELSE [tag |-> "ok", toks |-> Drop(line, from)]

\* Executor::reduce_indent
RECURSIVE reduce_indent(_, _, _)
reduce_indent(toks, style, format) ==
    IF toks = <<>> THEN [tag |-> "ok", toks |-> <<>>]
    ELSE LET gl == get_line(toks, FALSE)
             line == gl[1]
             new_rest == gl[2]
             il == indent_level(line, style)
             cutLine ==
                IF il.level = 0 THEN [tag |-> "ok", toks |-> line]
                ELSE CASE style.k = "Space" ->
                            IF format THEN SliceFrom(line, style.n + il.remainder)
                            ELSE SliceFrom(line, style.n)
                       [] style.k = "Tab" -> SliceFrom(line, 1)
                       [] OTHER ->
                            IF line[1].kind = "Space"
                            THEN IF format THEN SliceFrom(line, 2 + il.remainder)
                                 ELSE SliceFrom(line, 2)
                            ELSE SliceFrom(line, 1)
             break_token ==
                IF Len(line) < Len(toks) THEN <<toks[Len(line) + 1]>> ELSE <<>>
             more == reduce_indent(new_rest, style, format)
         IN  IF il.tag = "panic" \/ cutLine.tag = "panic" \/ more.tag = "panic"
             THEN [tag |-> "panic", toks |-> <<>>]
             ELSE [tag |-> "ok", toks |-> cutLine.toks \o break_token \o more.toks]

\* Executor::align_indent
align_indent(toks, style, rule) ==
    IF rule = "Strict" THEN [tag |-> "ok", toks |-> toks]
    ELSE LET il == indent_level(toks, style)
         IN  IF il.tag = "panic" THEN [tag |-> "panic", toks |-> <<>>]
             ELSE SliceFrom(toks, il.remainder)

(***************************************************************************)
(* The trees of model/tree.rs.                                             *)
(***************************************************************************)
Text(text) == [t |-> "Text", text |-> text]

Italic(root) == [t |-> "Italic", root |-> root]

Strong(root) == [t |-> "Strong", root |-> root]

InlineBreak == [t |-> "Break"]

Paragraph(root) == [t |-> "Paragraph", root |-> root]

Headline(level, root) == [t |-> "Headline", level |-> level, root |-> root]

BulletList(items) == [t |-> "BulletList", items |-> items]

OrderedList(items) == [t |-> "OrderedList", items |-> items]

BlockQuote(root) == [t |-> "BlockQuote", root |-> root]

ListItem(name, children) == [name |-> name, children |-> children]

(***************************************************************************)
(* Inline tree.  A production yields Option<(item, rest)>, here tag        *)
(* "some" or "none"; tag "panic" stands for a call that panics.            *)
(***************************************************************************)
NoMatch == [tag |-> "none", item |-> InlineBreak, rest |-> <<>>]

Panics == [tag |-> "panic", item |-> InlineBreak, rest |-> <<>>]

Hangs == [tag |-> "hang", item |-> InlineBreak, rest |-> <<>>]

Match(item, new_rest) == [tag |-> "some", item |-> item, rest |-> new_rest]

\* enumerate().skip(1).find(): the 0-based index of the first Star of s at
\* index 1 or later, or -1.
StarAfterFirst(s) ==
    IF \E i \in 2..Len(s) : s[i].kind = "Star"
    THEN (CHOOSE i \in 2..Len(s) :
              /\ s[i].kind = "Star"
              /\ \A j \in 2..(i - 1) : s[j].kind # "Star") - 1
    ELSE -1

\* windows(2).enumerate().skip(1).find(): the 0-based index of the first pair
\* of adjacent Stars of s that starts at index 1 or later, or -1.
StarPairAfterFirst(s) ==
    LET pairAt(i) == s[i].kind = "Star" /\ s[i + 1].kind = "Star"
    IN  IF \E i \in 2..(Len(s) - 1) : pairAt(i)
        THEN (CHOOSE i \in 2..(Len(s) - 1) :
                  /\ pairAt(i)
                  /\ \A j \in 2..(i - 1) : ~pairAt(j)) - 1
        ELSE -1

\* The first of the results that is not None: the productions are tried in
\* order and a later one only when the earlier ones yield None.
FirstOf2(a, b) == IF a.tag # "none" THEN a ELSE b

FirstOf3(a, b, c) == IF a.tag # "none" THEN a ELSE FirstOf2(b, c)

FirstOf4(a, b, c, d) == IF a.tag # "none" THEN a ELSE FirstOf3(b, c, d)

RECURSIVE inline_tree(_)
RECURSIVE InlineLoop(_, _)

\* Some((item(tree), rest)) once the content has been parsed.
StrongBuilt(sub, new_rest) ==
    IF sub.tag = "panic" THEN Panics ELSE Match(Strong(sub.root), new_rest)

ItalicBuilt(sub, new_rest) ==
    IF sub.tag = "panic" THEN Panics ELSE Match(Italic(sub.root), new_rest)

\* strong from the closing pair on: &tokens[2..index] panics when index < 2.
StrongClosedAt(toks, index) ==
    IF index < 0 THEN NoMatch
    ELSE IF 2 > index THEN Panics
    ELSE StrongBuilt(inline_tree(SubSeq(toks, 3, index)), Drop(toks, index + 2))

\* Executor::strong (tokens is not empty)
strong(toks) ==
    IF toks[1].kind # "Star" THEN NoMatch
    ELSE IF Len(toks) < 2 THEN NoMatch
    ELSE IF toks[2].kind # "Star" THEN NoMatch
    ELSE StrongClosedAt(toks, StarPairAfterFirst(toks))

ItalicClosedAt(toks, index) ==
    IF index < 0 THEN NoMatch
    ELSE ItalicBuilt(inline_tree(SubSeq(toks, 2, index)), Drop(toks, index + 1))

\* Executor::italic (tokens is not empty)
italic(toks) ==
    IF toks[1].kind # "Star" THEN NoMatch
    ELSE ItalicClosedAt(toks, StarAfterFirst(toks))

\* Executor::r#break (tokens is not empty)
break(toks) ==
    IF toks[1].kind # "Break" THEN NoMatch
    ELSE Match(InlineBreak, Tail(toks))

\* A pass that starts a Text item for every literal token.
MisInlinePass(rest_, root, r) ==
    IF r.tag = "panic" THEN [tag |-> "panic", root |-> <<>>]
    ELSE IF r.tag = "some" THEN InlineLoop(r.rest, Append(root, r.item))
    ELSE InlineLoop(Tail(rest_), Append(root, Text(rest_[1].text)))

\* One pass of the loop of inline_tree, given what the productions yield.
InlinePass(rest_, root, r) ==
    IF r.tag = "panic" THEN [tag |-> "panic", root |-> <<>>]
    ELSE IF r.tag = "some" THEN InlineLoop(r.rest, Append(root, r.item))
    ELSE IF root # <<>> /\ Last(root).t = "Text"
    THEN InlineLoop(Tail(rest_),
             [root EXCEPT ![Len(root)] = Text(Last(root).text \o rest_[1].text)])
    ELSE InlineLoop(Tail(rest_), Append(root, Text(rest_[1].text)))

\* The loop of inline_tree: rest and tree.root.
InlineLoop(rest_, root) ==
    IF rest_ = <<>> THEN [tag |-> "ok", root |-> root]
    ELSE InlinePass(rest_, root,
                    FirstOf3(strong(rest_), italic(rest_), break(rest_)))

\* Executor::inline_tree
inline_tree(toks) == InlineLoop(toks, <<>>)

(***************************************************************************)
(* Block tree.  Tag "hang" stands for a call that never returns.  Each     *)
(* function is written as a chain of operators, one per step, so that the  *)
(* value of a step is computed once and handed on.                         *)
(***************************************************************************)
\* Parser: the four configurations of an Executor.
Config(p, h, r, st) ==
    [paragraph_ending |-> p, headline_ending |-> h,
     list_indent_rule |-> r, list_indent_style |-> st]

Digits == {"0", "1", "2", "3", "4", "5", "6", "7", "8", "9"}

\* self.input[token.range()].chars().all(|c| c.is_ascii_digit())
AllDigits(text) == \A i \in 1..Len(text) : text[i] \in Digits

\* The end of the range headline scans for its marker.
LevelScanEnd == 7

\* A scan for the marker that goes one token further.
RECURSIVE MisLevelScan(_, _)
MisLevelScan(toks, i) ==
    IF i >= LevelScanEnd + 1 THEN 0
    ELSE IF i < Len(toks)
         THEN IF toks[i + 1].kind = "Pound" THEN MisLevelScan(toks, i + 1)
              ELSE IF toks[i + 1].kind = "Space" THEN i
              ELSE -1
         ELSE MisLevelScan(toks, i + 1)

\* The loop of headline over i: the level, 0 when the loop ends without a
\* Space, -1 when it returns None.
RECURSIVE LevelScan(_, _)
LevelScan(toks, i) ==
    IF i >= LevelScanEnd THEN 0
    ELSE IF i < Len(toks)
         THEN IF toks[i + 1].kind = "Pound" THEN LevelScan(toks, i + 1)
              ELSE IF toks[i + 1].kind = "Space" THEN i
              ELSE -1
         ELSE LevelScan(toks, i + 1)

RECURSIVE headline(_, _)
RECURSIVE maybe_block_item(_, _, _)
RECURSIVE get_until_maybe_block_item(_, _)
RECURSIVE UntilLoop(_, _, _, _)
RECURSIVE block_tree(_, _)
RECURSIVE BlockLoop(_, _, _)
RECURSIVE list_item(_, _)
RECURSIVE bullet_list(_, _)
RECURSIVE BulletLoop(_, _, _)
RECURSIVE ordered_list(_, _)
RECURSIVE OrderedLoop(_, _, _)
RECURSIVE NameLoop(_, _, _)
RECURSIVE blockquote(_, _)
RECURSIVE QuoteLoop(_, _, _)

\* A pair of slices (front, back), or the panic of the call that splits.
Split(front, back) == [tag |-> "ok", front |-> front, back |-> back]

SplitPair(pair) == Split(pair[1], pair[2])

SplitPanics == [tag |-> "panic", front |-> <<>>, back |-> <<>>]

\* get_until_maybe_block_item at the Break with 0-based index `index`, given
\* what maybe_block_item says of the tokens after it.
UntilJudged(cfg, toks, n, index, m) ==
    IF m = "panic" THEN SplitPanics
    ELSE IF m = "true"
    THEN Split(trim_end(Take(toks, index), "Break"),
               trim_start(Drop(toks, index + 1), "Break"))
    ELSE IF toks[index + 1].kind = "Break" /\ toks[index + 2].kind = "Break"
    THEN Split(trim_end(Take(toks, index), "Break"),
               trim_start(Drop(toks, index + 2), "Break"))
    ELSE UntilLoop(cfg, toks, n, index + 1)

\* iter.find(): p is the distance to the next Break, or -1.
UntilFound(cfg, toks, n, from, p) ==
    IF p < 0
    THEN Split(trim_end(toks, "Break"), <<>>)
    ELSE UntilJudged(cfg, toks, n, from + p,
                     maybe_block_item(cfg, Drop(toks, from + p + 1), FALSE))

\* The loop of get_until_maybe_block_item: iter stands before the token with
\* 0-based index from; n is the length of the tokens without trailing Breaks.
UntilLoop(cfg, toks, n, from) ==
    UntilFound(cfg, toks, n, from, BreakPosition(SubSeq(toks, from + 1, n)))

\* Executor::get_until_maybe_block_item
get_until_maybe_block_item(cfg, toks) ==
    UntilLoop(cfg, toks, Len(trim_end(toks, "Break")), 0)

\* Some((item, rest)) for an item made of an inline tree: a Headline of the
\* level, a Paragraph for level 0.
InlineBlockBuilt(level, it, back) ==
    IF it.tag = "panic" THEN Panics
    ELSE IF level = 0 THEN Match(Paragraph(it.root), back)
    ELSE Match(Headline(level, it.root), back)

InlineBlockOf(level, split) ==
    IF split.tag = "panic" THEN Panics
    ELSE InlineBlockBuilt(level, inline_tree(split.front), split.back)

\* headline: the content read according to headline_ending.
HeadlineContent(cfg, content) ==
    IF cfg.headline_ending = "SoftBreak" THEN SplitPair(get_line(content, TRUE))
    ELSE IF cfg.headline_ending = "AllowSoftBreak"
    THEN get_until_maybe_block_item(cfg, content)
    ELSE SplitPair(get_paragraph(content))

\* headline once the marker has been scanned.
HeadlineAt(cfg, toks, level) ==
    IF level <= 0 THEN NoMatch
    ELSE InlineBlockOf(level,
             HeadlineContent(cfg, trim_start(Drop(toks, level), "Space")))

HeadlineTrimmed(cfg, toks) == HeadlineAt(cfg, toks, LevelScan(toks, 0))

\* Executor::headline
headline(cfg, toks_) == HeadlineTrimmed(cfg, trim_white_spaces(toks_))

\* maybe_block_item, given what headline yields for the tokens.
MaybeJudged(toks, h) ==
    IF h.tag = "panic" THEN "panic"
    ELSE IF h.tag = "some" THEN "true"
    ELSE IF toks = <<>> THEN "false"
    ELSE IF toks[1].kind = "Gt" THEN "true"
    ELSE IF Len(toks) < 2 THEN "false"
    ELSE IF toks[1].kind = "Hyphen" /\ toks[2].kind = "Space" THEN "true"
    ELSE IF Len(toks) < 3 THEN "false"
    ELSE IF /\ toks[1].kind = "Text"
            /\ toks[2].kind = "Dot"
            /\ toks[3].kind = "Space"
            /\ AllDigits(toks[1].text)
    THEN "true"
    ELSE "false"

MaybeTrimmed(cfg, toks) == MaybeJudged(toks, headline(cfg, toks))

\* Executor::maybe_block_item: "true", "false", or "panic" when the headline
\* it tries panics.
maybe_block_item(cfg, toks_, trim) ==
    MaybeTrimmed(cfg, IF trim THEN trim_white_spaces(toks_) ELSE toks_)

\* Executor::paragraph
paragraph(cfg, toks) ==
    InlineBlockOf(0, IF cfg.paragraph_ending = "HardBreak"
                     THEN SplitPair(get_paragraph(toks))
                     ELSE get_until_maybe_block_item(cfg, toks))

NameDone(this_rest, name) == [tag |-> "ok", name |-> name, rest |-> this_rest]

NamePanics == [tag |-> "panic", name |-> <<>>, rest |-> <<>>]

NameParsed(cfg, new_rest, name, it) ==
    IF it.tag = "panic" THEN NamePanics
    ELSE NameLoop(cfg, new_rest, name \o it.root \o <<InlineBreak>>)

NameIndented(cfg, this_rest, name, gl, il) ==
    IF il.tag = "panic" THEN NamePanics
    ELSE IF il.level # 0 THEN NameDone(this_rest, name)
    ELSE NameParsed(cfg, gl[2], name, inline_tree(gl[1]))

NameLine(cfg, this_rest, name, gl) ==
    IF gl[1] = <<>> THEN NameDone(this_rest, name)
    ELSE NameIndented(cfg, this_rest, name, gl,
                      indent_level(gl[1], cfg.list_indent_style))

\* The name loop of list_item: this_rest and name.root.
NameLoop(cfg, this_rest, name) ==
    IF this_rest = <<>> THEN NameDone(this_rest, name)
    ELSE NameLine(cfg, this_rest, name, get_line(this_rest, FALSE))

ItemFails(tag) == [tag |-> tag, item |-> ListItem(<<>>, <<>>)]

ItemBuilt(name, children) ==
    IF children.tag # "ok" THEN ItemFails(children.tag)
    ELSE [tag |-> "ok", item |-> ListItem(name, children.root)]

ItemReduced(cfg, name, reduced) ==
    IF reduced.tag = "panic" THEN ItemFails("panic")
    ELSE ItemBuilt(name, block_tree(cfg, reduced.toks))

\* list_item after the name loop: name.root.pop(), then the children.
ItemNamed(cfg, nl) ==
    IF nl.tag = "panic" THEN ItemFails("panic")
    ELSE ItemReduced(cfg,
             IF nl.name = <<>> THEN <<>> ELSE Take(nl.name, Len(nl.name) - 1),
             reduce_indent(nl.rest, cfg.list_indent_style, TRUE))

\* Executor::list_item
list_item(cfg, toks) == ItemNamed(cfg, NameLoop(cfg, toks, <<>>))

BulletItem(cfg, items, new_rest, li) ==
    IF li.tag = "panic" THEN Panics
    ELSE IF li.tag = "hang" THEN Hangs
    ELSE BulletLoop(cfg, new_rest, Append(items, li.item))

BulletBody(cfg, rest_, items, until) ==
    IF until.tag = "panic" THEN Panics
    ELSE IF until.front = <<>> THEN Match(BulletList(items), rest_)
    ELSE BulletItem(cfg, items, until.back, list_item(cfg, until.front))

BulletAligned(cfg, rest_, items, input3) ==
    IF input3.tag = "panic" THEN Panics
    ELSE IF Len(input3.toks) < 1 THEN NoMatch                \* input3.get(0)?
    ELSE IF input3.toks[1].kind # "Hyphen" THEN Match(BulletList(items), rest_)
    ELSE IF Len(input3.toks) < 2 THEN NoMatch                \* input3.get(1)?
    ELSE IF input3.toks[2].kind # "Space" THEN Match(BulletList(items), rest_)
    ELSE BulletBody(cfg, rest_, items,
                    get_until_maybe_block_item(cfg, Drop(rest_, 2)))

\* The loop of bullet_list: rest and tree.root.
BulletLoop(cfg, rest_, items) ==
    IF rest_ = <<>> THEN Match(BulletList(items), rest_)
    ELSE BulletAligned(cfg, rest_, items,
             align_indent(rest_, cfg.list_indent_style, cfg.list_indent_rule))

BulletFirst(cfg, toks, input2) ==
    IF input2.tag = "panic" THEN Panics
    ELSE IF Len(input2.toks) < 1 THEN NoMatch
    ELSE IF input2.toks[1].kind # "Hyphen" THEN NoMatch
    ELSE IF Len(input2.toks) < 2 THEN NoMatch
    ELSE IF input2.toks[2].kind # "Space" THEN NoMatch
    ELSE BulletLoop(cfg, toks, <<>>)

\* Executor::bullet_list
bullet_list(cfg, toks) ==
    BulletFirst(cfg, toks,
        align_indent(toks, cfg.list_indent_style, cfg.list_indent_rule))

OrderedItem(cfg, items, new_rest, li) ==
    IF li.tag = "panic" THEN Panics
    ELSE IF li.tag = "hang" THEN Hangs
    ELSE OrderedLoop(cfg, new_rest, Append(items, li.item))

OrderedBody(cfg, rest_, items, until) ==
    IF until.tag = "panic" THEN Panics
    ELSE IF until.front = <<>> THEN Match(OrderedList(items), rest_)
    ELSE OrderedItem(cfg, items, until.back, list_item(cfg, until.front))

OrderedAligned(cfg, rest_, items, input3) ==
    IF input3.tag = "panic" THEN Panics
    ELSE IF Len(input3.toks) < 1 THEN NoMatch
    ELSE IF input3.toks[1].kind # "Text" THEN Match(OrderedList(items), rest_)
    ELSE IF Len(input3.toks) < 2 THEN NoMatch
    ELSE IF input3.toks[2].kind # "Dot" THEN Match(OrderedList(items), rest_)
    ELSE IF Len(input3.toks) < 3 THEN NoMatch
    ELSE IF input3.toks[3].kind # "Space" THEN Match(OrderedList(items), rest_)
    ELSE IF ~AllDigits(input3.toks[1].text) THEN Match(OrderedList(items), rest_)
    ELSE OrderedBody(cfg, rest_, items,
                     get_until_maybe_block_item(cfg, Drop(rest_, 3)))

\* The loop of ordered_list: rest and tree.root.
OrderedLoop(cfg, rest_, items) ==
    IF rest_ = <<>> THEN Match(OrderedList(items), rest_)
    ELSE OrderedAligned(cfg, rest_, items,
             align_indent(rest_, cfg.list_indent_style, cfg.list_indent_rule))

\* The digits are looked for in tokens[0], not in input2[0].
OrderedFirst(cfg, toks, input2) ==
    IF input2.tag = "panic" THEN Panics
    ELSE IF Len(input2.toks) < 1 THEN NoMatch
    ELSE IF input2.toks[1].kind # "Text" THEN NoMatch
    ELSE IF Len(input2.toks) < 2 THEN NoMatch
    ELSE IF input2.toks[2].kind # "Dot" THEN NoMatch
    ELSE IF Len(input2.toks) < 3 THEN NoMatch
    ELSE IF input2.toks[3].kind # "Space" THEN NoMatch
    ELSE IF ~AllDigits(toks[1].text) THEN NoMatch
    ELSE OrderedLoop(cfg, toks, <<>>)

\* Executor::ordered_list
ordered_list(cfg, toks) ==
    OrderedFirst(cfg, toks,
        align_indent(toks, cfg.list_indent_style, cfg.list_indent_rule))

QuoteDone(rest_, indented) ==
    [tag |-> "ok", indented |-> indented, rest |-> rest_]

QuotePanics == [tag |-> "panic", indented |-> <<>>, rest |-> <<>>]

\* rest.get(1 + input.len()): the Break that ends the line, if there is one.
QuoteAligned(cfg, rest_, indented, gl, input2) ==
    IF input2.tag = "panic" THEN QuotePanics
    ELSE QuoteLoop(cfg, gl[2],
             indented \o input2.toks
                 \o (IF 1 + Len(gl[1]) < Len(rest_)
                     THEN <<rest_[Len(gl[1]) + 2]>> ELSE <<>>))

QuoteJudged(cfg, rest_, indented, gl, m) ==
    IF m = "panic" THEN QuotePanics
    ELSE QuoteAligned(cfg, rest_, indented, gl,
             IF m = "true"
             THEN align_indent(gl[1], StyleSpace(2), "Loose")
             ELSE [tag |-> "ok", toks |-> trim_start(gl[1], "Space")])

QuoteLine(cfg, rest_, indented, gl) ==
    QuoteJudged(cfg, rest_, indented, gl, maybe_block_item(cfg, gl[1], TRUE))

\* The loop of blockquote: rest and indented_tokens.
QuoteLoop(cfg, rest_, indented) ==
    IF rest_ = <<>> THEN QuoteDone(rest_, indented)
    ELSE IF rest_[1].kind # "Gt" THEN QuoteDone(rest_, indented)
    ELSE QuoteLine(cfg, rest_, indented, get_line(Tail(rest_), FALSE))

QuoteBuilt(bt, new_rest) ==
    IF bt.tag = "panic" THEN Panics
    ELSE IF bt.tag = "hang" THEN Hangs
    ELSE Match(BlockQuote(bt.root), new_rest)

QuoteOf(cfg, q) ==
    IF q.tag = "panic" THEN Panics
    ELSE QuoteBuilt(block_tree(cfg, q.indented), q.rest)

\* Executor::blockquote
blockquote(cfg, toks) ==
    IF toks = <<>> THEN NoMatch                              \* tokens.get(0)?
    ELSE IF toks[1].kind # "Gt" THEN NoMatch
    ELSE QuoteOf(cfg, QuoteLoop(cfg, toks, <<>>))

\* Executor::not_paragraph
not_paragraph(cfg, toks) ==
    FirstOf4(headline(cfg, toks), bullet_list(cfg, toks),
             ordered_list(cfg, toks), blockquote(cfg, toks))

\* One pass of the loop of block_tree over [not_paragraph, paragraph].
Production(cfg, toks) ==
    FirstOf2(not_paragraph(cfg, toks), paragraph(cfg, toks))

\* A production that hands back the slice it was given is applied to it again
\* and again: the loop never ends.
BlockPass(cfg, rest_, root, r) ==
    IF r.tag = "panic" THEN [tag |-> "panic", root |-> <<>>]
    ELSE IF r.tag = "hang" THEN [tag |-> "hang", root |-> <<>>]
    ELSE IF Len(r.rest) >= Len(rest_) THEN [tag |-> "hang", root |-> <<>>]
    ELSE BlockLoop(cfg, r.rest, Append(root, r.item))

\* The loop of block_tree: rest and tree.root.
BlockLoop(cfg, rest_, root) ==
    IF rest_ = <<>> THEN [tag |-> "ok", root |-> root]
    ELSE BlockPass(cfg, rest_, root, Production(cfg, rest_))

\* Executor::block_tree
block_tree(cfg, toks) == BlockLoop(cfg, toks, <<>>)

(***************************************************************************)
(* The lexer pipeline as a state machine.                                  *)
(***************************************************************************)
\* Texts with a backslash in front of each character of the model, alone,
\* after a one-byte or a three-byte character, and before a short tail.
EscapeInputs ==
    {pre \o <<"\\", c>> \o post :
        pre \in {<<>>, <<"a">>, <<U3042>>},
        c \in AllChars,
        post \in SeqsUpTo({"a", "#"}, MaxEscTail)}

LexInputs == SeqsUpTo(LexChars, MaxLen) \cup EscapeInputs

\* The variables of make_toc while it is not called.
TocIdle ==
    /\ maker = <<>>
    /\ document = <<>>
    /\ node = 0
    /\ set = {}
    /\ list = <<>>
    /\ toc = <<>>
    /\ tpc = "idle"

\* The parser's variables while the lexer pipeline runs.
ParserIdle ==
    /\ tokens = <<>>
    /\ config = <<>>
    /\ rest = <<>>
    /\ prev = <<>>
    /\ tree = <<>>
    /\ ppc = "idle"
    /\ call = "none"
    /\ flag = FALSE

LexInit ==
    /\ input \in LexInputs
    /\ cursor = 0
    /\ raw = <<>>
    /\ jiter = <<>>
    /\ joined = <<>>
    /\ citer = <<>>
    /\ cut = <<>>
    /\ riter = <<>>
    /\ rejoined = <<>>
    /\ lpc = "lex"
    /\ ParserIdle
    /\ TocIdle

\* Lexer::next returning Some(token).
LexNext ==
    /\ lpc = "lex"
    /\ LexerNext(input, cursor).some
    /\ raw' = Append(raw, LexerNext(input, cursor).tok)
    /\ cursor' = LexerNext(input, cursor).cursor
    /\ UNCHANGED <<input, jiter, joined, citer, cut, riter, rejoined, lpc>>
    /\ UNCHANGED parsevars
    /\ UNCHANGED tocvars

\* Lexer::next returning None: the joiner has the whole raw stream to draw on.
LexEnd ==
    /\ lpc = "lex"
    /\ ~LexerNext(input, cursor).some
    /\ lpc' = "join"
    /\ jiter' = raw
    /\ UNCHANGED <<input, cursor, raw, joined, citer, cut, riter, rejoined>>
    /\ UNCHANGED parsevars
    /\ UNCHANGED tocvars

\* TextJoiner::next returning Some(token).
JoinNext ==
    /\ lpc = "join"
    /\ TextJoinerNext(jiter).some
    /\ joined' = Append(joined, TextJoinerNext(jiter).tok)
    /\ jiter' = TextJoinerNext(jiter).iter
    /\ UNCHANGED <<input, cursor, raw, citer, cut, riter, rejoined, lpc>>
    /\ UNCHANGED parsevars
    /\ UNCHANGED tocvars

JoinEnd ==
    /\ lpc = "join"
    /\ ~TextJoinerNext(jiter).some
    /\ lpc' = "cut"
    /\ citer' = joined
    /\ UNCHANGED <<input, cursor, raw, jiter, joined, cut, riter, rejoined>>
    /\ UNCHANGED parsevars
    /\ UNCHANGED tocvars

\* SpaceCutter::next returning Some(token).
CutNext ==
    /\ lpc = "cut"
    /\ SpaceCutterNext(citer).some
    /\ cut' = Append(cut, SpaceCutterNext(citer).tok)
    /\ citer' = SpaceCutterNext(citer).iter
    /\ UNCHANGED <<input, cursor, raw, jiter, joined, riter, rejoined, lpc>>
    /\ UNCHANGED parsevars
    /\ UNCHANGED tocvars

CutEnd ==
    /\ lpc = "cut"
    /\ ~SpaceCutterNext(citer).some
    /\ lpc' = "rejoin"
    /\ riter' = joined
    /\ UNCHANGED <<input, cursor, raw, jiter, joined, citer, cut, rejoined>>
    /\ UNCHANGED parsevars
    /\ UNCHANGED tocvars

\* A second TextJoiner drawing on the first one's output.
RejoinNext ==
    /\ lpc = "rejoin"
    /\ TextJoinerNext(riter).some
    /\ rejoined' = Append(rejoined, TextJoinerNext(riter).tok)
    /\ riter' = TextJoinerNext(riter).iter
    /\ UNCHANGED <<input, cursor, raw, jiter, joined, citer, cut, lpc>>
    /\ UNCHANGED parsevars
    /\ UNCHANGED tocvars

RejoinEnd ==
    /\ lpc = "rejoin"
    /\ ~TextJoinerNext(riter).some
    /\ lpc' = "done"
    /\ UNCHANGED <<input, cursor, raw, jiter, joined, citer, cut, riter, rejoined>>
    /\ UNCHANGED parsevars
    /\ UNCHANGED tocvars

LexStep ==
    \/ LexNext
    \/ LexEnd
    \/ JoinNext
    \/ JoinEnd
    \/ CutNext
    \/ CutEnd
    \/ RejoinNext
    \/ RejoinEnd

LexSpec == LexInit /\ [][LexStep]_vars

(***************************************************************************)
(* Parser::parse as a state machine: one action for each way a pass of the *)
(* loop of the top-level block_tree can go.                                *)
(***************************************************************************)
TA == PToken("Text", <<"a">>)
TD == PToken("Text", <<"1">>)
SP == PToken("Space", <<" ">>)
TB == PToken("Tab", <<"\t">>)
BR == PToken("Break", <<"\n">>)
PD == PToken("Pound", <<"#">>)
ST == PToken("Star", <<"*">>)
GT == PToken("Gt", <<">">>)
HY == PToken("Hyphen", <<"-">>)
DT == PToken("Dot", <<".">>)

ParagraphEndings == {"AllowSoftBreak", "HardBreak"}

HeadlineEndings == {"SoftBreak", "AllowSoftBreak", "HardBreak"}

IndentRules == {"Strict", "Loose"}

IndentStyles == {StyleSpace(2), StyleTab, StyleBoth}

Configs ==
    {Config(p, h, r, st) :
        p \in ParagraphEndings, h \in HeadlineEndings,
        r \in IndentRules, st \in IndentStyles}

\* Parser::default() with every paragraph and headline ending.
EndingConfigs ==
    {Config(p, h, "Strict", StyleSpace(2)) :
        p \in ParagraphEndings, h \in HeadlineEndings}

\* Every short token vector, under every configuration.
GeneralCases ==
    SeqsUpTo({TA, SP, BR, PD, ST, GT, HY}, MaxTokens) \X Configs

Pounds(n) == [i \in 1..n |-> PD]

\* A run of Pound tokens, a Space and a body without a Break.
LevelCases ==
    {Pounds(n) \o <<SP>> \o body :
        n \in 1..MaxPounds, body \in SeqsUpTo({TA, SP, ST, TB}, MaxBody)}
    \X EndingConfigs

\* One Pound, a Space and what follows, over several lines.
TailCases ==
    {<<PD, SP>> \o tail : tail \in SeqsUpTo({TA, SP, BR, PD, HY, GT}, MaxTail)}
    \X EndingConfigs

\* A run of Pound tokens, a Space and a Text in a block quote and in the
\* children of a list item.
NestedCases ==
    {prefix \o Pounds(n) \o <<SP, TA>> :
        prefix \in {<<GT, SP>>, <<HY, SP, TA, BR, SP, SP>>}, n \in 1..MaxPounds}
    \X EndingConfigs

ParseCases == GeneralCases \cup LevelCases \cup TailCases \cup NestedCases

\* No legitimate parse has more blocks than tokens; a tree this long is cut off.
MaxBlocks == MaxTokens + MaxPounds + MaxBody + MaxTail

\* The lexer pipeline's variables while the parser runs.
LexerIdle ==
    /\ input = <<>>
    /\ cursor = 0
    /\ raw = <<>>
    /\ jiter = <<>>
    /\ joined = <<>>
    /\ citer = <<>>
    /\ cut = <<>>
    /\ riter = <<>>
    /\ rejoined = <<>>
    /\ lpc = "idle"

ParseInit ==
    /\ \E c \in ParseCases :
          /\ tokens = c[1]
          /\ config = c[2]
          /\ rest = c[1]
          /\ prev = c[1]
    /\ tree = <<>>
    /\ ppc = "parsing"
    /\ call = "parse"
    /\ flag = FALSE
    /\ LexerIdle
    /\ TocIdle

\* not_paragraph yields an item.
NotParagraphStep ==
    /\ ppc = "parsing"
    /\ rest # <<>>
    /\ Len(tree) < MaxBlocks
    /\ \E r \in {not_paragraph(config, rest)} :
          /\ r.tag = "some"
          /\ tree' = Append(tree, r.item)
          /\ rest' = r.rest
    /\ prev' = rest
    /\ UNCHANGED <<flag, tokens, config, ppc, call>>
    /\ UNCHANGED lexvars
    /\ UNCHANGED tocvars

\* not_paragraph yields None and paragraph yields an item.
ParagraphStep ==
    /\ ppc = "parsing"
    /\ rest # <<>>
    /\ Len(tree) < MaxBlocks
    /\ not_paragraph(config, rest).tag = "none"
    /\ \E r \in {paragraph(config, rest)} :
          /\ r.tag = "some"
          /\ tree' = Append(tree, r.item)
          /\ rest' = r.rest
    /\ prev' = rest
    /\ UNCHANGED <<flag, tokens, config, ppc, call>>
    /\ UNCHANGED lexvars
    /\ UNCHANGED tocvars

\* The production panics: parse unwinds.
PanicStep ==
    /\ ppc = "parsing"
    /\ rest # <<>>
    /\ Production(config, rest).tag = "panic"
    /\ ppc' = "panic"
    /\ prev' = rest
    /\ UNCHANGED <<flag, tokens, config, rest, tree, call>>
    /\ UNCHANGED lexvars
    /\ UNCHANGED tocvars

\* The production calls a block_tree (for list children or for a blockquote)
\* that never returns.
HangStep ==
    /\ ppc = "parsing"
    /\ rest # <<>>
    /\ Production(config, rest).tag = "hang"
    /\ ppc' = "hang"
    /\ prev' = rest
    /\ UNCHANGED <<flag, tokens, config, rest, tree, call>>
    /\ UNCHANGED lexvars
    /\ UNCHANGED tocvars

\* rest is empty: block_tree returns the tree.
Finish ==
    /\ ppc = "parsing"
    /\ rest = <<>>
    /\ ppc' = "done"
    /\ UNCHANGED <<flag, tokens, config, rest, prev, tree, call>>
    /\ UNCHANGED lexvars
    /\ UNCHANGED tocvars

ParseStep ==
    \/ NotParagraphStep
    \/ ParagraphStep
    \/ PanicStep
    \/ HangStep
    \/ Finish

ParseSpec == ParseInit /\ [][ParseStep]_vars

(***************************************************************************)
(* The functions of Executor called on their own: one action for each      *)
(* function, applied to a slice drawn from a bounded set.                  *)
(***************************************************************************)
\* The lines joined by one Break between them.
RECURSIVE JoinLines(_)
JoinLines(ls) ==
    IF ls = <<>> THEN <<>>
    ELSE IF Len(ls) = 1 THEN ls[1]
    ELSE ls[1] \o <<BR>> \o JoinLines(Tail(ls))

\* Every text of 1..n lines drawn from the set.
Docs(lineSet, n) == {JoinLines(ls) : ls \in SeqsUpTo(lineSet, n) \ {<<>>}}

\* Configurations with every paragraph ending, indent rule and indent style.
ListConfigs ==
    {Config(p, "HardBreak", r, st) :
        p \in ParagraphEndings, r \in IndentRules, st \in IndentStyles}

\* The lines of a list item's body.
ItemLines ==
    {<<TA>>, <<SP, TA>>, <<SP, SP, TA>>, <<SP, SP, SP, TA>>, <<TB, TA>>,
     <<TB, SP, TA>>, <<SP, SP, HY, SP, TA>>, <<>>}

\* The lines of a list.
ListLines ==
    {<<HY, SP, TA>>, <<SP, SP, HY, SP, TA>>, <<TA>>, <<HY>>, <<>>}

\* The lines of an ordered list.
OrderedLines ==
    {<<TD, DT, SP, TA>>, <<SP, SP, TD, DT, SP, TA>>, <<TA, DT, SP, TA>>,
     <<TD, DT>>, <<TD>>, <<>>}

\* The lines of a text with a blockquote.
QuoteLines ==
    {<<GT, TA>>, <<GT, SP, TA>>, <<GT, SP, SP, TA>>, <<GT, TB, TA>>,
     <<GT, SP, TB, TA>>, <<GT, SP, PD, SP, TA>>, <<GT, SP, HY, SP, TA>>,
     <<GT, HY, SP>>, <<GT>>, <<TA>>, <<>>}

\* n Space tokens.
Spaces(n) == [i \in 1..n |-> SP]

\* The styles of the model: Space(n) for the counts up to MaxUnit, a zero
\* count included, Tab and Both.
AllStyles == {StyleSpace(n) : n \in 0..MaxUnit} \cup {StyleTab, StyleBoth}

StyleConfigs == {Config("HardBreak", "HardBreak", "Strict", st) : st \in AllStyles}

\* Lines for indent_level: every short run of Space and Tab tokens, and runs
\* of Space tokens about as long as the counter is wide, before a Text token
\* or the end of the line.
IndentLines ==
    {run \o tail :
        run \in SeqsUpTo({SP, TB}, MaxIndent)
                 \cup {Spaces(n) : n \in (U8 - 1)..(U8 + MaxUnit)},
        tail \in {<<>>, <<TA>>}}

\* Lines for reduce_indent.
ReduceLines ==
    {<<TA>>, <<SP, TA>>, <<SP, SP, TA>>, <<SP, SP, SP, TA>>, <<TB, TA>>,
     <<SP, TB, TA>>, <<TB, SP, TA>>, <<SP, TB>>, <<SP, SP>>, <<>>}

\* Slices for maybe_block_item: white space or none, then a marker, whole or
\* cut short, or none, then what follows it.
Markers ==
    {Pounds(n) \o sp : n \in 0..MaxPounds, sp \in {<<>>, <<SP>>, <<TA>>}}
    \cup {<<GT>>, <<HY, SP>>, <<HY>>, <<HY, TA>>, <<TD, DT, SP>>, <<TA, DT, SP>>,
          <<TD, DT>>, <<TD, SP>>, <<DT, SP>>, <<BR>>}

MaybeLines ==
    {white \o marker \o tail :
        white \in SeqsUpTo({SP, TB}, MaxWhite),
        marker \in Markers,
        tail \in {<<>>, <<TA>>, <<ST, ST, ST>>}}

CallCases ==
    ({"list_item"} \X Docs(ItemLines, MaxLines) \X ListConfigs \X {FALSE})
    \cup ({"bullet_list"} \X Docs(ListLines, MaxLines) \X ListConfigs \X {FALSE})
    \cup ({"ordered_list"} \X Docs(OrderedLines, MaxLines) \X ListConfigs
              \X {FALSE})
    \cup ({"blockquote"} \X Docs(QuoteLines, MaxLines) \X EndingConfigs \X {FALSE})
    \cup ({"inline_tree", "strong", "italic"}
              \X (SeqsUpTo({ST, TA, SP, BR}, MaxInline) \ {<<>>})
              \X {Config("HardBreak", "HardBreak", "Strict", StyleSpace(2))}
              \X {FALSE})
    \cup ({"indent_level"} \X IndentLines \X StyleConfigs \X {FALSE})
    \cup ({"reduce_indent"} \X Docs(ReduceLines, MaxIndentLines) \X StyleConfigs
              \X BOOLEAN)
    \cup ({"maybe_block_item"} \X MaybeLines \X EndingConfigs \X BOOLEAN)

CallInit ==
    /\ \E c \in CallCases :
          /\ call = c[1]
          /\ tokens = c[2]
          /\ config = c[3]
          /\ rest = c[2]
          /\ prev = c[2]
          /\ flag = c[4]
    /\ tree = <<>>
    /\ ppc = "calling"
    /\ LexerIdle
    /\ TocIdle

\* list_item(tokens): the ListItem, or a panic, or a block_tree for the
\* children that never returns.
ListItemCall ==
    /\ call = "list_item"
    /\ ppc = "calling"
    /\ \E r \in {list_item(config, tokens)} :
          /\ ppc' = r.tag
          /\ tree' = IF r.tag = "ok" THEN <<r.item>> ELSE <<>>
    /\ UNCHANGED <<flag, tokens, config, rest, prev, call>>
    /\ UNCHANGED lexvars
    /\ UNCHANGED tocvars

\* bullet_list(tokens): Some((item, rest)), None, a panic or no return.
BulletListCall ==
    /\ call = "bullet_list"
    /\ ppc = "calling"
    /\ \E r \in {bullet_list(config, tokens)} :
          /\ ppc' = r.tag
          /\ tree' = IF r.tag = "some" THEN <<r.item>> ELSE <<>>
          /\ rest' = IF r.tag = "some" THEN r.rest ELSE rest
    /\ UNCHANGED <<flag, tokens, config, prev, call>>
    /\ UNCHANGED lexvars
    /\ UNCHANGED tocvars

\* ordered_list(tokens): Some((item, rest)), None, a panic or no return.
OrderedListCall ==
    /\ call = "ordered_list"
    /\ ppc = "calling"
    /\ \E r \in {ordered_list(config, tokens)} :
          /\ ppc' = r.tag
          /\ tree' = IF r.tag = "some" THEN <<r.item>> ELSE <<>>
          /\ rest' = IF r.tag = "some" THEN r.rest ELSE rest
    /\ UNCHANGED <<flag, tokens, config, prev, call>>
    /\ UNCHANGED lexvars
    /\ UNCHANGED tocvars

\* blockquote(tokens): Some((item, rest)), None, a panic or no return; prev
\* keeps indented_tokens, the buffer handed to block_tree.
BlockquoteCall ==
    /\ call = "blockquote"
    /\ ppc = "calling"
    /\ \E r \in {blockquote(config, tokens)} :
          /\ ppc' = r.tag
          /\ tree' = IF r.tag = "some" THEN <<r.item>> ELSE <<>>
          /\ rest' = IF r.tag = "some" THEN r.rest ELSE rest
          /\ prev' = IF r.tag \in {"some", "hang"}
                     THEN QuoteLoop(config, tokens, <<>>).indented ELSE prev
    /\ UNCHANGED <<flag, tokens, config, call>>
    /\ UNCHANGED lexvars
    /\ UNCHANGED tocvars

\* inline_tree(tokens): the tree, or a panic.
InlineTreeCall ==
    /\ call = "inline_tree"
    /\ ppc = "calling"
    /\ \E r \in {inline_tree(tokens)} :
          /\ ppc' = r.tag
          /\ tree' = r.root
    /\ UNCHANGED <<flag, tokens, config, rest, prev, call>>
    /\ UNCHANGED lexvars
    /\ UNCHANGED tocvars

\* strong(tokens): Some((item, rest)), None or a panic.
StrongCall ==
    /\ call = "strong"
    /\ ppc = "calling"
    /\ \E r \in {strong(tokens)} :
          /\ ppc' = r.tag
          /\ tree' = IF r.tag = "some" THEN <<r.item>> ELSE <<>>
          /\ rest' = IF r.tag = "some" THEN r.rest ELSE rest
    /\ UNCHANGED <<flag, tokens, config, prev, call>>
    /\ UNCHANGED lexvars
    /\ UNCHANGED tocvars

\* italic(tokens): Some((item, rest)), None or a panic.
ItalicCall ==
    /\ call = "italic"
    /\ ppc = "calling"
    /\ \E r \in {italic(tokens)} :
          /\ ppc' = r.tag
          /\ tree' = IF r.tag = "some" THEN <<r.item>> ELSE <<>>
          /\ rest' = IF r.tag = "some" THEN r.rest ELSE rest
    /\ UNCHANGED <<flag, tokens, config, prev, call>>
    /\ UNCHANGED lexvars
    /\ UNCHANGED tocvars

\* indent_level(tokens, style): (level, remainder), or a panic.
IndentLevelCall ==
    /\ call = "indent_level"
    /\ ppc = "calling"
    /\ \E r \in {indent_level(tokens, config.list_indent_style)} :
          /\ ppc' = r.tag
          /\ tree' = IF r.tag = "ok" THEN <<r.level, r.remainder>> ELSE <<>>
    /\ UNCHANGED <<flag, tokens, config, rest, prev, call>>
    /\ UNCHANGED lexvars
    /\ UNCHANGED tocvars

\* reduce_indent(tokens, style, format): the output vector, or a panic.
ReduceIndentCall ==
    /\ call = "reduce_indent"
    /\ ppc = "calling"
    /\ \E r \in {reduce_indent(tokens, config.list_indent_style, flag)} :
          /\ ppc' = r.tag
          /\ tree' = r.toks
    /\ UNCHANGED <<flag, tokens, config, rest, prev, call>>
    /\ UNCHANGED lexvars
    /\ UNCHANGED tocvars

\* maybe_block_item(tokens, trim): the bool, or a panic.
MaybeBlockItemCall ==
    /\ call = "maybe_block_item"
    /\ ppc = "calling"
    /\ \E r \in {maybe_block_item(config, tokens, flag)} :
          /\ ppc' = IF r = "panic" THEN "panic" ELSE "ok"
          /\ tree' = IF r = "panic" THEN <<>> ELSE <<r = "true">>
    /\ UNCHANGED <<flag, tokens, config, rest, prev, call>>
    /\ UNCHANGED lexvars
    /\ UNCHANGED tocvars

CallStep ==
    \/ ListItemCall
    \/ BulletListCall
    \/ OrderedListCall
    \/ BlockquoteCall
    \/ InlineTreeCall
    \/ StrongCall
    \/ ItalicCall
    \/ IndentLevelCall
    \/ ReduceIndentCall
    \/ MaybeBlockItemCall

CallSpec == CallInit /\ [][CallStep]_vars

(***************************************************************************)
(* The table of contents (toc.rs) over the HTML model (html.rs).  A String *)
(* is a sequence of characters, an Option is a sequence of at most one     *)
(* value.                                                                  *)
(***************************************************************************)
\* ElementNode { tag, id, href, children, .. }
ElementNode(tag, id, href, children) ==
    [node |-> "Element", tag |-> tag, id |-> id, href |-> href, children |-> children]

\* TextNode { text }
TextNode(text) == [node |-> "Text", text |-> text]

\* ElementTag::get_headline_level
get_headline_level(tag) ==
    CASE tag = "H1" -> <<1>>
      [] tag = "H2" -> <<2>>
      [] tag = "H3" -> <<3>>
      [] tag = "H4" -> <<4>>
      [] tag = "H5" -> <<5>>
      [] tag = "H6" -> <<6>>
      [] OTHER -> <<>>

\* ElementTag::headline
headline_tag(l) ==
    CASE l = 1 -> <<"H1">>
      [] l = 2 -> <<"H2">>
      [] l = 3 -> <<"H3">>
      [] l = 4 -> <<"H4">>
      [] l = 5 -> <<"H5">>
      [] l = 6 -> <<"H6">>
      [] OTHER -> <<>>

\* html::get_text: the texts of the nodes and of their descendants, joined.
RECURSIVE get_text(_)
get_text(nodes) ==
    IF nodes = <<>> THEN <<>>
    ELSE (IF nodes[1].node = "Element" THEN get_text(nodes[1].children)
          ELSE nodes[1].text) \o get_text(Tail(nodes))

\* ListType::to_tag
to_tag(list_type) == IF list_type = "Unordered" THEN "Ul" ELSE "Ol"

\* impl Default for MakeToc
MakeTocDefault == [level |-> 3, list_type |-> "Unordered"]

\* MakeToc::level
level(self, l) == [self EXCEPT !.level = l]

\* index.to_string(): the decimal digits of index.
RECURSIVE to_string(_)
to_string(n) ==
    IF n < 10 THEN <<(<<"0", "1", "2", "3", "4", "5", "6", "7", "8", "9">>)[n + 1]>>
    ELSE to_string(n \div 10) \o to_string(n % 10)

\* make_toc: `headline_level > self.level`
TooDeep(self, headline_level) == headline_level > self.level

\* make_toc: the node passes the three `continue`s of the loop body.
IsEntry(self, n) ==
    /\ n.node = "Element"
    /\ get_headline_level(n.tag) # <<>>
    /\ ~TooDeep(self, get_headline_level(n.tag)[1])

\* An id search that stops at the index after the first free one.
RECURSIVE MisNextIndex(_, _, _)
MisNextIndex(ids, text, index) ==
    IF (text \o to_string(index)) \notin ids THEN index + 1
    ELSE MisNextIndex(ids, text, index + 1)

\* make_toc: the `loop` that looks for an unused text + index; the index it
\* breaks with.
RECURSIVE NextIndex(_, _, _)
NextIndex(ids, text, index) ==
    IF (text \o to_string(index)) \notin ids THEN index
    ELSE NextIndex(ids, text, index + 1)

\* An id that is the text whatever ids were handed out.
MisNewId(ids, text) == text

\* make_toc: the id of a headline of this text, given the ids handed out.
NewId(ids, text) ==
    IF text \notin ids THEN text
    ELSE text \o to_string(NextIndex(ids, text, 1))

\* An entry whose id is pushed twice.
MisPushEntry(st, i, headline_level, text, id) ==
    [root |-> [st.root EXCEPT ![i].id = Append(Append(@, id), id)],
     set |-> st.set \cup {id},
     list |-> Append(st.list, <<headline_level, text, id>>)]

\* make_toc: set.insert(id), element.id.push(id), list.push(..).
PushEntry(st, i, headline_level, text, id) ==
    [root |-> [st.root EXCEPT ![i].id = Append(@, id)],
     set |-> st.set \cup {id},
     list |-> Append(st.list, <<headline_level, text, id>>)]

PushText(st, i, headline_level, text) ==
    PushEntry(st, i, headline_level, text, NewId(st.set, text))

\* make_toc: the body of the loop for the i-th node of input.root.
Visit(self, st, i) ==
    IF ~IsEntry(self, st.root[i]) THEN st
    ELSE PushText(st, i, get_headline_level(st.root[i].tag)[1],
                  get_text(st.root[i].children))

\* nest: rest[1..].iter().position(|(level, _, _)| *level <= rest[0].0)
Position(s, lvl) ==
    IF \E i \in 1..Len(s) : s[i][1] <= lvl
    THEN <<(CHOOSE i \in 1..Len(s) :
               /\ s[i][1] <= lvl
               /\ \A j \in 1..(i - 1) : ~(s[j][1] <= lvl)) - 1>>
    ELSE <<>>

\* nest: the `a` element of an entry.
Anchor(entry) == ElementNode("A", <<>>, <<(<<"#">> \o entry[3])>>, <<TextNode(entry[2])>>)

\* nest: the `li` element of an entry whose nested call returned output.
LiOf(self, entry, output) ==
    ElementNode("Li", <<>>, <<>>,
        <<Anchor(entry)>> \o
        (IF output # <<>>
         THEN <<ElementNode(to_tag(self.list_type), <<>>, <<>>, output)>>
         ELSE <<>>))

\* MakeToc::nest
RECURSIVE nest(_, _)
RECURSIVE NestAt(_, _, _)
NestAt(self, entries, next) ==
    IF next = <<>> THEN <<LiOf(self, entries[1], nest(self, Tail(entries)))>>
    ELSE IF next[1] = 1
    THEN <<ElementNode("Li", <<>>, <<>>, <<Anchor(entries[1])>>)>>
         \o nest(self, Drop(entries, next[1] + 1))
    ELSE <<LiOf(self, entries[1], nest(self, SubSeq(entries, 2, next[1] + 1)))>>
         \o nest(self, Drop(entries, next[1] + 1))

nest(self, entries) ==
    IF entries = <<>> THEN <<>>
    ELSE NestAt(self, entries, Position(Tail(entries), entries[1][1]))

\* make_toc: the loop over input.root from the i-th node on.
RECURSIVE TocLoop(_, _, _)
TocLoop(self, st, i) ==
    IF i > Len(st.root) THEN st ELSE TocLoop(self, Visit(self, st, i), i + 1)

\* make_toc: the root of the DocumentNode returned for the collected list.
TocRoot(self, entries) ==
    <<ElementNode(to_tag(self.list_type), <<>>, <<>>, nest(self, entries))>>

\* MakeToc::make_toc: the document with its ids, and the root of the TOC.
TocOf(self, st) == [root |-> st.root, toc |-> TocRoot(self, st.list)]

make_toc(self, nodes) ==
    TocOf(self, TocLoop(self, [root |-> nodes, set |-> {}, list |-> <<>>], 1))

(***************************************************************************)
(* MakeToc::make_toc as a state machine: one action per pass of the loop   *)
(* over input.root, and one for the return.                                *)
(***************************************************************************)
\* The texts of the headlines of the model: "A", and "A1" as <strong>A</strong>1.
HeadlineChildren ==
    {<<TextNode(<<"A">>)>>,
     <<ElementNode("Strong", <<>>, <<>>, <<TextNode(<<"A">>)>>), TextNode(<<"1">>)>>}

TocNodes ==
    {ElementNode(tag, <<>>, <<>>, ch) :
        tag \in {"H1", "H2", "H3", "H4"}, ch \in HeadlineChildren}
    \cup {ElementNode("Blockquote", <<>>, <<>>,
              <<ElementNode("H1", <<>>, <<>>, <<TextNode(<<"A">>)>>)>>),
          TextNode(<<"A">>)}

TocMakers == {MakeTocDefault, level(MakeTocDefault, 2)}

TocInit ==
    /\ maker \in TocMakers
    /\ document \in SeqsUpTo(TocNodes, MaxNodes)
    /\ node = 1
    /\ set = {}
    /\ list = <<>>
    /\ toc = <<>>
    /\ tpc = "loop"
    /\ LexerIdle
    /\ ParserIdle

\* The loop body leaves by one of its `continue`s.
ContinueNode ==
    /\ tpc = "loop"
    /\ node <= Len(document)
    /\ ~IsEntry(maker, document[node])
    /\ node' = node + 1
    /\ UNCHANGED <<maker, document, set, list, toc, tpc>>
    /\ UNCHANGED lexvars
    /\ UNCHANGED parsevars

\* set.insert(text) succeeds: the id is the text.
FreshId ==
    /\ tpc = "loop"
    /\ node <= Len(document)
    /\ IsEntry(maker, document[node])
    /\ get_text(document[node].children) \notin set
    /\ \E st \in {Visit(maker, [root |-> document, set |-> set, list |-> list], node)} :
          /\ document' = st.root
          /\ set' = st.set
          /\ list' = st.list
    /\ node' = node + 1
    /\ UNCHANGED <<maker, toc, tpc>>
    /\ UNCHANGED lexvars
    /\ UNCHANGED parsevars

\* set.insert(text) fails: the id is the text and the index the loop finds.
SuffixedId ==
    /\ tpc = "loop"
    /\ node <= Len(document)
    /\ IsEntry(maker, document[node])
    /\ get_text(document[node].children) \in set
    /\ \E st \in {Visit(maker, [root |-> document, set |-> set, list |-> list], node)} :
          /\ document' = st.root
          /\ set' = st.set
          /\ list' = st.list
    /\ node' = node + 1
    /\ UNCHANGED <<maker, toc, tpc>>
    /\ UNCHANGED lexvars
    /\ UNCHANGED parsevars

\* The loop is over: nest(&list), wrapped in the one list element.
MakeTocReturn ==
    /\ tpc = "loop"
    /\ node > Len(document)
    /\ toc' = TocRoot(maker, list)
    /\ tpc' = "done"
    /\ UNCHANGED <<maker, document, node, set, list>>
    /\ UNCHANGED lexvars
    /\ UNCHANGED parsevars

TocStep ==
    \/ ContinueNode
    \/ FreshId
    \/ SuffixedId
    \/ MakeTocReturn

TocSpec == TocInit /\ [][TocStep]_vars

(***************************************************************************)
(* Claims about the lexer pipeline, checked under LexSpec.                 *)
(***************************************************************************)
LexerDone == lpc # "lex"

Kinds(s) == [i \in 1..Len(s) |-> s[i].kind]

Shift(s, k) == [i \in 1..Len(s) |-> Token(s[i].kind, s[i].start + k, s[i].len)]

\* C3: the raw token stream of every input is contiguous: it is empty for the
\* empty input, and otherwise the first token starts at offset 0, each token
\* starts where the one before it ends, and the last ends at the input length.
C3_RawContiguous ==
    LexerDone =>
        /\ (raw = <<>>) <=> (input = <<>>)
        /\ raw # <<>> =>
            /\ raw[1].start = 0
            /\ \A i \in 1..(Len(raw) - 1) : raw[i + 1].start = range_end(raw[i])
            /\ range_end(Last(raw)) = ByteLen(input)

\* C4: a text of k three-byte codepoints lexes to k Text tokens, one per
\* codepoint and as wide as it, and in a text with such codepoints (and no
\* two-character form) every character gets its own token.
C4_OneTokenPerCodepoint ==
    LexerDone =>
        /\ (\A i \in 1..Len(input) : input[i] = U3042) =>
              raw = [i \in 1..Len(input) |-> Token("Text", 3 * (i - 1), 3)]
        /\ (/\ \E i \in 1..Len(input) : input[i] = U3042
            /\ \A i \in 1..Len(input) : input[i] \notin {"\\", "\r"}) =>
              /\ Len(raw) = Len(input)
              /\ \A i \in 1..Len(raw) : raw[i].start = ByteIndex(input, i - 1)

\* C5: a text that starts with a backslash followed by a punctuation character
\* or a backslash lexes to a Text token covering just that character, followed
\* by the tokens of what comes after it; a backslash before anything else, or
\* at the end, lexes to a Text token for the backslash, followed by the tokens
\* of the text after the backslash.
C5_EscapeFidelity ==
    (LexerDone /\ input # <<>> /\ input[1] = "\\") =>
        IF Len(input) >= 2 /\ input[2] \in (Punctuation \cup {"\\"})
        THEN /\ raw[1] = Token("Text", 1, 1)
             /\ Tail(raw) = Shift(LexerAll(Drop(input, 2), 0), 2)
        ELSE /\ raw[1] = Token("Text", 0, 1)
             /\ Tail(raw) = Shift(LexerAll(Tail(input), 0), 1)

C5_Witness ==
    /\ lpc = "done"
    /\ Len(input) >= 3
    /\ input[1] = "\\"
    /\ input[2] = "."
    /\ Len(raw) = 2

\* The joiner as C6 describes it: every maximal run of Text tokens becomes one
\* Text token from the start of the run's first token to the end of its last.
RECURSIVE CombinedRuns(_)
CombinedRuns(s) ==
    IF s = <<>> THEN <<>>
    ELSE LET n == TextRun(s)
         IN  IF n > 0
             THEN <<Token("Text", s[1].start, range_end(s[n]) - s[1].start)>>
                      \o CombinedRuns(Drop(s, n))
             ELSE <<s[1]>> \o CombinedRuns(Tail(s))

\* C6: the joiner's output is the raw stream with every maximal run of Text
\* tokens replaced by one Text token spanning the run's combined range, and
\* every other token unchanged and in order.
C6_JoinerCombinedRange ==
    (lpc \notin {"lex", "join"}) => joined = CombinedRuns(raw)

\* C7: running the joiner over its own output changes nothing, and that
\* output has no two adjacent Text tokens.
C7_JoinerIdempotent ==
    (lpc = "done") =>
        /\ rejoined = joined
        /\ \A i \in 1..(Len(joined) - 1) :
              ~(joined[i].kind = "Text" /\ joined[i + 1].kind = "Text")

C7_Witness ==
    /\ lpc = "done"
    /\ \E i \in 1..(Len(raw) - 2) :
          \A j \in i..(i + 2) : raw[j].kind = "Text"
    /\ Len(joined) >= 2

\* The text with every line of only spaces and tabs emptied; bol says whether
\* s starts a line.
RECURSIVE EmptiedLines(_, _)
EmptiedLines(s, bol) ==
    IF s = <<>> THEN <<>>
    ELSE LET n == CHOOSE k \in 0..Len(s) :
                      /\ \A i \in 1..k : s[i] \in {" ", "\t"}
                      /\ k < Len(s) => s[k + 1] \notin {" ", "\t"}
             ends == \/ n = Len(s)
                     \/ s[n + 1] = "\n"
                     \/ s[n + 1] = "\r" /\ n + 2 <= Len(s) /\ s[n + 2] = "\n"
         IN  IF bol /\ n > 0 /\ ends
             THEN EmptiedLines(Drop(s, n), TRUE)
             ELSE <<s[1]>> \o EmptiedLines(Tail(s), s[1] = "\n")

\* C8 as stated: lex() yields the same kinds for a text as for the text with
\* every line of only spaces and tabs emptied, the first line included.
C8_BlankLineAnywhere ==
    (lpc = "done") => Kinds(cut) = Kinds(lex(EmptiedLines(input, TRUE)))

\* A token stream without the Space/Tab runs that follow a Break and reach
\* the next Break or the end of the stream.
RECURSIVE StripBlankLines(_, _)
StripBlankLines(s, afterBreak) ==
    IF s = <<>> THEN <<>>
    ELSE LET n == BlankRun(s)
         IN  IF afterBreak /\ n > 0 /\ (n = Len(s) \/ s[n + 1].kind = "Break")
             THEN StripBlankLines(Drop(s, n), TRUE)
             ELSE <<s[1]>> \o StripBlankLines(Tail(s), s[1].kind = "Break")

\* C8 amended: a line of only Space/Tab tokens that follows a Break token
\* behaves as an empty line: the normalizer yields for a token stream what it
\* yields for the stream with the tokens of every such line removed.
C8_BlankLineAfterBreak ==
    (lpc = "done") => cut = SpaceCutterAll(StripBlankLines(joined, FALSE))

C8_Witness ==
    /\ lpc = "done"
    /\ \E i \in 1..(Len(joined) - 2) :
          /\ joined[i].kind = "Break"
          /\ IsBlank(joined[i + 1])
          /\ joined[i + 2].kind = "Break"
    /\ IsBlank(Last(joined))
    /\ Len(cut) < Len(joined) - 1

(***************************************************************************)
(* Claims about the parser, checked under ParseSpec.                       *)
(***************************************************************************)
\* C1: parse runs to completion: every production step of the block_tree
\* loop leaves a remainder shorter than the one it was given, and no
\* block_tree called for list children or a blockquote body fails to return.
C1_ParseTerminates ==
    /\ ppc # "hang"
    /\ (ppc = "parsing" /\ tree # <<>>) => Len(rest) < Len(prev)

\* C2: parsing never raises a runtime failure (no index past the end of a
\* slice, no slice whose start exceeds its end), whatever the tokens and the
\* configuration.
C2_NoRuntimeFailure == ppc # "panic"

\* The number of Pound tokens at the start of s.
RECURSIVE LeadingPounds(_)
LeadingPounds(s) ==
    IF s # <<>> /\ s[1].kind = "Pound" THEN 1 + LeadingPounds(Tail(s)) ELSE 0

NoBreak(s) == \A i \in 1..Len(s) : s[i].kind # "Break"

IsWhite(tok) == tok.kind \in {"Space", "Tab"}

\* The tokens are n Pounds, one Space and a word body: break-free, not empty,
\* with no white space at either end.
HeadingLine ==
    /\ LeadingPounds(tokens) >= 1
    /\ Len(tokens) > LeadingPounds(tokens) + 1
    /\ tokens[LeadingPounds(tokens) + 1].kind = "Space"
    /\ NoBreak(tokens)
    /\ ~IsWhite(tokens[LeadingPounds(tokens) + 2])
    /\ ~IsWhite(Last(tokens))

HeadingBody == Drop(tokens, LeadingPounds(tokens) + 1)

HasPound(text) == \E i \in 1..Len(text) : text[i] = "#"

\* C9: heading monotonicity: n Pounds (1 <= n <= 6), one Space and a
\* break-free body parse to exactly one block, the Headline of level n over
\* the body; with 7 Pounds the line parses to one Paragraph whose text holds
\* the Pounds.
C9_HeadingMonotonicity ==
    (HeadingLine /\ ppc # "parsing") =>
        /\ ppc = "done"
        /\ Len(tree) = 1
        /\ IF LeadingPounds(tokens) <= 6
           THEN tree[1] = Headline(LeadingPounds(tokens),
                                   inline_tree(HeadingBody).root)
           ELSE /\ tree[1].t = "Paragraph"
                /\ tree[1].root # <<>>
                /\ tree[1].root[1].t = "Text"
                /\ HasPound(tree[1].root[1].text)

\* The last step of the block_tree loop made a Headline out of prev.
HeadlineMade ==
    /\ ppc \in {"parsing", "done"}
    /\ tree # <<>>
    /\ Last(tree).t = "Headline"

\* What follows the marker (the Pounds and the Spaces after them) in prev.
AfterMarker ==
    trim_start(Drop(trim_white_spaces(prev), Last(tree).level), "Space")

\* The Break tokens of s and the Break items of an inline tree, counted.
RECURSIVE BreakTokens(_)
BreakTokens(s) ==
    IF s = <<>> THEN 0
    ELSE (IF s[1].kind = "Break" THEN 1 ELSE 0) + BreakTokens(Tail(s))

RECURSIVE BreakItems(_)
BreakItems(root) ==
    IF root = <<>> THEN 0
    ELSE (CASE root[1].t = "Break" -> 1
            [] root[1].t \in {"Italic", "Strong"} -> BreakItems(root[1].root)
            [] OTHER -> 0) + BreakItems(Tail(root))

\* The 1-based positions of s where a line ends.
LineEnds(s) == {i \in 1..Len(s) : s[i].kind = "Break"}

\* The ends of lines followed by a blank line.
BlankLineAt(s) == {i \in LineEnds(s) : i < Len(s) /\ s[i + 1].kind = "Break"}

\* The ends of lines followed by a line that the lookahead judges to start a
\* block, or by a blank line; the Breaks that end the input are no line ends.
StopsAt(s) ==
    {i \in LineEnds(trim_end(s, "Break")) :
        \/ maybe_block_item(config, Drop(s, i), FALSE) = "true"
        \/ s[i + 1].kind = "Break"}

Min(S) == CHOOSE i \in S : \A j \in S : i <= j

\* The content and the remainder of a headline whose content ends at the
\* first position of S, or at the end of the input when S is empty.
ContentUpTo(s, S) == IF S = {} THEN trim_end(s, "Break") ELSE Take(s, Min(S) - 1)

RestAfter(s, S, skip) ==
    IF S = {} THEN <<>> ELSE trim_start(Drop(s, Min(S) - 1 + skip), "Break")

\* C10: headline ending.  SoftBreak: the content is the marker's own line and
\* the next block starts at the next line that is not blank.  HardBreak: the
\* content runs to the next blank line or the end of the input, and every
\* Break in it is a Break item of the headline.  AllowSoftBreak: the content
\* runs to the first following line that the lookahead judges to start a
\* block, to a blank line, or to the end of the input.
C10_HeadlineEnding ==
    HeadlineMade =>
        /\ config.headline_ending = "SoftBreak" =>
            /\ Last(tree).root =
                   inline_tree(ContentUpTo(AfterMarker, LineEnds(AfterMarker))).root
            /\ rest = RestAfter(AfterMarker, LineEnds(AfterMarker), 1)
            /\ BreakItems(Last(tree).root) = 0
        /\ config.headline_ending = "HardBreak" =>
            /\ Last(tree).root =
                   inline_tree(ContentUpTo(AfterMarker, BlankLineAt(AfterMarker))).root
            /\ rest = RestAfter(AfterMarker, BlankLineAt(AfterMarker), 2)
            /\ BreakItems(Last(tree).root) =
                   BreakTokens(ContentUpTo(AfterMarker, BlankLineAt(AfterMarker)))
        /\ config.headline_ending = "AllowSoftBreak" =>
            /\ Last(tree).root =
                   inline_tree(ContentUpTo(AfterMarker, StopsAt(AfterMarker))).root
            /\ rest = RestAfter(AfterMarker, StopsAt(AfterMarker), 1)

\* A headline under AllowSoftBreak whose content ran over a soft break and
\* stopped at a line that starts a blockquote.
C10_Witness ==
    /\ HeadlineMade
    /\ config.headline_ending = "AllowSoftBreak"
    /\ BreakItems(Last(tree).root) = 1
    /\ rest # <<>>
    /\ rest[1].kind = "Gt"

\* The last step of the block_tree loop made a Paragraph out of prev.
ParagraphMade ==
    /\ ppc \in {"parsing", "done"}
    /\ tree # <<>>
    /\ Last(tree).t = "Paragraph"

\* C11: paragraph ending.  AllowSoftBreak: the paragraph ends just before the
\* first following line that the lookahead judges to start a block item (or
\* at a blank line, or at the end of the input), and the next block starts at
\* that line.  HardBreak: the paragraph runs to the next blank line or the
\* end of the input, a line that looks like a block item is part of it, and
\* every Break in it is a Break item of the paragraph.
C11_ParagraphEnding ==
    ParagraphMade =>
        /\ config.paragraph_ending = "AllowSoftBreak" =>
            /\ Last(tree).root = inline_tree(ContentUpTo(prev, StopsAt(prev))).root
            /\ rest = RestAfter(prev, StopsAt(prev), 1)
        /\ config.paragraph_ending = "HardBreak" =>
            /\ Last(tree).root =
                   inline_tree(ContentUpTo(prev, BlankLineAt(prev))).root
            /\ rest = RestAfter(prev, BlankLineAt(prev), 2)
            /\ BreakItems(Last(tree).root) =
                   BreakTokens(ContentUpTo(prev, BlankLineAt(prev)))

\* A paragraph under HardBreak that took in a line starting with `>`.
C11_Witness ==
    /\ ParagraphMade
    /\ config.paragraph_ending = "HardBreak"
    /\ Len(prev) = 3
    /\ prev[2].kind = "Break"
    /\ prev[3].kind = "Gt"
    /\ BreakItems(Last(tree).root) = 1
    /\ rest = <<>>

(***************************************************************************)
(* Claims about single functions of Executor, checked under CallSpec.      *)
(***************************************************************************)
\* The lines of s: the runs between its Break tokens.
RECURSIVE SplitLines(_)
SplitLines(s) ==
    IF BreakPosition(s) < 0 THEN <<s>>
    ELSE <<Take(s, BreakPosition(s))>> \o SplitLines(Drop(s, BreakPosition(s) + 1))

\* The indent units of a line and what is left over, under the configured
\* style.
Units(line) == indent_level(line, config.list_indent_style).level

Remainder(line) == indent_level(line, config.list_indent_style).remainder

\* The number of leading lines with 0 indent units.
RECURSIVE LeadingFlat(_)
LeadingFlat(lines) ==
    IF lines # <<>> /\ Units(lines[1]) = 0
    THEN 1 + LeadingFlat(Tail(lines)) ELSE 0

\* The inline content of the lines, one Break item between two lines.
RECURSIVE JoinInline(_)
JoinInline(lines) ==
    IF lines = <<>> THEN <<>>
    ELSE IF Len(lines) = 1 THEN inline_tree(lines[1]).root
    ELSE inline_tree(lines[1]).root \o <<InlineBreak>> \o JoinInline(Tail(lines))

\* The width of a white space token and of one indent unit.
WidthOf(tok) ==
    IF config.list_indent_style.k = "Both" /\ tok.kind = "Tab" THEN 2 ELSE 1

UnitWidth ==
    CASE config.list_indent_style.k = "Space" -> config.list_indent_style.n
      [] config.list_indent_style.k = "Tab" -> 1
      [] OTHER -> 2

\* The line without its first tokens, as many as make up the width w.
RECURSIVE DropWidth(_, _)
DropWidth(line, w) ==
    IF w <= 0 \/ line = <<>> THEN line
    ELSE DropWidth(Tail(line), w - WidthOf(line[1]))

\* A line less one indent unit and the remainder; a line of 0 units as it is.
OneUnitLess(line) ==
    IF Units(line) = 0 THEN line
    ELSE DropWidth(line, UnitWidth + Remainder(line))

\* The slice is one that a list hands to list_item: it is not empty and
\* get_until_maybe_block_item takes the whole of it.
IsItemBody ==
    /\ tokens # <<>>
    /\ get_until_maybe_block_item(config, tokens) = Split(tokens, <<>>)

\* The label and the children of the item, as the lines of the body give them.
LabelOf(lines) == JoinInline(Take(lines, LeadingFlat(lines)))

ChildrenOf(lines) ==
    block_tree(config,
        JoinLines([i \in 1..(Len(lines) - LeadingFlat(lines)) |->
                      OneUnitLess(lines[LeadingFlat(lines) + i])]))

\* `- a`, `  - a`, `- a`: an item, an item one unit deeper, an item at the
\* outer indentation.
NestedList ==
    JoinLines(<<<<HY, SP, TA>>, <<SP, SP, HY, SP, TA>>, <<HY, SP, TA>>>>)

Leaf == ListItem(<<Text(<<"a">>)>>, <<>>)

\* C12: list item structure.  The label of an item is the inline content of
\* the leading lines of 0 indent units, one Break item between two lines and
\* none at the end; the children are the block tree of the remaining lines,
\* each less one indent unit and the remainder.  Under Space(2) an item one
\* unit deeper is an item of a sub-list in the children of the item before
\* it, and a later item at the outer indentation continues the outer list.
C12_ListItemStructure ==
    /\ (call = "list_item" /\ IsItemBody /\ ppc # "calling") =>
          /\ ppc = "ok"
          /\ tree[1].name = LabelOf(SplitLines(tokens))
          /\ ChildrenOf(SplitLines(tokens)).tag = "ok"
          /\ tree[1].children = ChildrenOf(SplitLines(tokens)).root
    /\ (/\ call = "bullet_list"
        /\ tokens = NestedList
        /\ config.list_indent_style = StyleSpace(2)
        /\ ppc # "calling") =>
          /\ ppc = "some"
          /\ tree = <<BulletList(<<ListItem(<<Text(<<"a">>)>>,
                                            <<BulletList(<<Leaf>>)>>),
                                   Leaf>>)>>
          /\ rest = <<>>

\* What is left of s from its first line that does not begin with `>`.
RECURSIVE AfterQuoted(_)
AfterQuoted(s) ==
    IF s = <<>> THEN s
    ELSE IF s[1].kind # "Gt" THEN s
    ELSE IF BreakPosition(s) < 0 THEN <<>>
    ELSE AfterQuoted(Drop(s, BreakPosition(s) + 1))

\* The lines of s that begin with `>`, up to that line.
QuotedPart(s) == Take(s, Len(s) - Len(AfterQuoted(s)))

\* C13: blockquote extent.  blockquote yields an item exactly when the first
\* token is `>`; the remainder is the input from its first line that does not
\* begin with `>`, and the tree is that of the lines before it alone.
C13_BlockquoteExtent ==
    (call = "blockquote" /\ ppc # "calling") =>
        /\ ppc \in {"some", "none"}
        /\ (ppc = "some") <=> (tokens # <<>> /\ tokens[1].kind = "Gt")
        /\ ppc = "some" =>
            /\ rest = AfterQuoted(tokens)
            /\ tree = <<blockquote(config, QuotedPart(tokens)).item>>

\* The first line of s, and s after the Break that ends it.
FirstLine(s) == IF BreakPosition(s) < 0 THEN s ELSE Take(s, BreakPosition(s))

AfterFirstLine(s) ==
    IF BreakPosition(s) < 0 THEN <<>> ELSE Drop(s, BreakPosition(s) + 1)

\* A line after its `>`: as it is when the lookahead judges it to start a
\* block, without its leading Space and Tab tokens otherwise.
DequotedLine(line) ==
    IF maybe_block_item(config, line, TRUE) = "true" THEN line
    ELSE trim_white_spaces(line)

\* The lines of s that begin with `>`, each without its `>` and de-quoted,
\* with the Breaks that end them.
RECURSIVE Dequoted(_)
Dequoted(s) ==
    IF s = <<>> THEN <<>>
    ELSE IF s[1].kind # "Gt" THEN <<>>
    ELSE DequotedLine(FirstLine(Tail(s)))
         \o (IF BreakPosition(s) < 0 THEN <<>> ELSE <<BR>>)
         \o Dequoted(AfterFirstLine(s))

\* C14: blockquote de-quoting.  Of each consumed line, after its `>`, the
\* leading white space is left untouched when the rest looks like the start
\* of a block, and all leading Space and Tab tokens are removed otherwise;
\* the result is what the nested block parse is given.
C14_BlockquoteDequoting ==
    (call = "blockquote" /\ ppc \in {"some", "hang"}) => prev = Dequoted(tokens)

\* The positions of the Star tokens of s.
Stars(s) == {i \in 1..Len(s) : s[i].kind = "Star"}

\* The slice holds one opener and nothing that could close it: one Star, or
\* one pair of adjacent Stars.
Unterminated(s) ==
    \/ Cardinality(Stars(s)) = 1
    \/ /\ Cardinality(Stars(s)) = 2
       /\ \E i \in Stars(s) : i + 1 \in Stars(s)

\* The `*` characters of the Text items at the top of an inline tree.
RECURSIVE StarChars(_)
StarChars(root) ==
    IF root = <<>> THEN 0
    ELSE (IF root[1].t = "Text"
          THEN Cardinality({i \in 1..Len(root[1].text) : root[1].text[i] = "*"})
          ELSE 0) + StarChars(Tail(root))

\* C15: unterminated emphasis.  In inline_tree a `*` or `**` opener with no
\* closer after it makes no Italic and no Strong item: its Star tokens are
\* literal `*` characters of a Text item.
C15_UnterminatedEmphasis ==
    (call = "inline_tree" /\ Unterminated(tokens) /\ ppc # "calling") =>
        /\ ppc = "ok"
        /\ \A i \in 1..Len(tree) : tree[i].t \notin {"Italic", "Strong"}
        /\ StarChars(tree) = Cardinality(Stars(tokens))

\* The positions from `from` on where a pair of adjacent Stars begins.
PairsFrom(s, from) == {j \in Stars(s) : j >= from /\ j + 1 \in Stars(s)}

\* The slice begins with a pair of Stars and has a pair after it.
StrongCloses(s) == {1, 2} \subseteq Stars(s) /\ PairsFrom(s, 3) # {}

\* The slice begins with a Star and has a Star after it.
ItalicCloses(s) == 1 \in Stars(s) /\ Stars(s) \ {1} # {}

\* C16: nearest-closer matching.  strong matches the opening pair with the
\* nearest pair of adjacent Stars after it, italic the opening Star with the
\* nearest Star after it; the content is the tokens strictly between opener
\* and closer, parsed recursively, and the remainder starts right after the
\* closer.  inline_tree tries strong before italic.
C16_NearestCloser ==
    /\ (call = "strong" /\ ppc # "calling") =>
          IF StrongCloses(tokens)
          THEN /\ ppc = "some"
               /\ tree = <<Strong(inline_tree(
                             SubSeq(tokens, 3, Min(PairsFrom(tokens, 3)) - 1)).root)>>
               /\ rest = Drop(tokens, Min(PairsFrom(tokens, 3)) + 1)
          ELSE ppc = "none"
    /\ (call = "italic" /\ ppc # "calling") =>
          IF ItalicCloses(tokens)
          THEN /\ ppc = "some"
               /\ tree = <<Italic(inline_tree(
                             SubSeq(tokens, 2, Min(Stars(tokens) \ {1}) - 1)).root)>>
               /\ rest = Drop(tokens, Min(Stars(tokens) \ {1}))
          ELSE ppc = "none"
    /\ (call = "inline_tree" /\ StrongCloses(tokens) /\ ppc # "calling") =>
          /\ ppc = "ok"
          /\ tree[1].t = "Strong"

(***************************************************************************)
(* Claims about the table of contents, checked under TocSpec.              *)
(***************************************************************************)
\* The level of a headline element, 0 for every other node.
HeadlineLevelOf(n) ==
    IF n.node # "Element" THEN 0
    ELSE CASE n.tag = "H1" -> 1 [] n.tag = "H2" -> 2 [] n.tag = "H3" -> 3
           [] n.tag = "H4" -> 4 [] n.tag = "H5" -> 5 [] n.tag = "H6" -> 6
           [] OTHER -> 0

\* The headline is within the configured depth.
WithinDepth(n) == HeadlineLevelOf(n) >= 1 /\ HeadlineLevelOf(n) <= maker.level

\* The headlines within the configured depth among the nodes make_toc has
\* visited, in document order.
VisitedHeadlines == SelectSeq(SubSeq(document, 1, node - 1), WithinDepth)

\* The ids given to the entries before the k-th.
IdsBefore(k) == {list[j][3] : j \in 1..(k - 1)}

\* The smallest positive integer k for which text followed by k is not used.
SmallestSuffix(used, text) ==
    CHOOSE k \in 1..(Cardinality(used) + 1) :
        /\ (text \o to_string(k)) \notin used
        /\ \A j \in 1..(k - 1) : (text \o to_string(j)) \in used

ExpectedId(used, text) ==
    IF text \notin used THEN text ELSE text \o to_string(SmallestSuffix(used, text))

\* The entries follow the headlines in document order, with the id that was
\* attached to the headline.
EntriesInOrder ==
    /\ Len(list) = Len(VisitedHeadlines)
    /\ \A k \in 1..Len(list) :
          /\ list[k][2] = get_text(VisitedHeadlines[k].children)
          /\ VisitedHeadlines[k].id = <<list[k][3]>>

\* Every entry has the text when it was unused, and the text followed by the
\* smallest unused positive integer otherwise.
IdsBySmallestSuffix ==
    \A k \in 1..Len(list) : list[k][3] = ExpectedId(IdsBefore(k), list[k][2])

FirstOfText(k) == \A j \in 1..(k - 1) : list[j][2] # list[k][2]

\* C17: headlines are processed in document order; a headline whose text is
\* not yet used as an id gets the text as its id, any other gets the text
\* followed by the smallest positive integer that makes an unused id; and the
\* first headline of every text gets the bare text as its id.
C17_TocAnchorIds ==
    /\ EntriesInOrder
    /\ IdsBySmallestSuffix
    /\ \A k \in 1..Len(list) : FirstOfText(k) => list[k][3] = list[k][2]

\* C17, amended: as above, but the first headline of a text gets the bare
\* text only when that text was not already given to an earlier headline as
\* its suffixed id.
C17_TocAnchorIdsUnlessTaken ==
    /\ EntriesInOrder
    /\ IdsBySmallestSuffix
    /\ \A k \in 1..Len(list) :
          (FirstOfText(k) /\ list[k][2] \notin IdsBefore(k)) => list[k][3] = list[k][2]

\* make_toc has returned for a document in which the first headline of a
\* text found that text taken, next to a headline that got the bare text.
C17_Witness ==
    /\ tpc = "done"
    /\ \E k \in 1..Len(list) : FirstOfText(k) /\ list[k][3] # list[k][2]
    /\ \E k \in 1..Len(list) : FirstOfText(k) /\ list[k][3] = list[k][2]

\* The entry under which the k-th entry belongs: the nearest preceding entry
\* of a strictly smaller level, 0 for the root list.
ParentOf(k) ==
    IF \E j \in 1..(k - 1) : list[j][1] < list[k][1]
    THEN CHOOSE j \in 1..(k - 1) :
            /\ list[j][1] < list[k][1]
            /\ \A i \in (j + 1)..(k - 1) : ~(list[i][1] < list[k][1])
    ELSE 0

\* The anchor of the k-th entry: href `#` and the id, the text of the headline.
AnchorOfEntry(k) ==
    ElementNode("A", <<>>, <<(<<"#">> \o list[k][3])>>, <<TextNode(list[k][2])>>)

\* The `li` elements of the entries from the k-th on that belong under p, each
\* with its anchor and, when entries belong under it, their list.
RECURSIVE EntriesUnder(_, _)
EntryWith(k, sub) ==
    ElementNode("Li", <<>>, <<>>,
        <<AnchorOfEntry(k)>> \o
        (IF sub # <<>> THEN <<ElementNode(to_tag(maker.list_type), <<>>, <<>>, sub)>>
         ELSE <<>>))

EntriesUnder(p, k) ==
    IF k > Len(list) THEN <<>>
    ELSE (IF ParentOf(k) = p THEN <<EntryWith(k, EntriesUnder(k, k + 1))>> ELSE <<>>)
         \o EntriesUnder(p, k + 1)

\* C18: in the returned TOC the entry of every included headline lies in the
\* sub-list of the entry of the nearest preceding headline of a strictly
\* smaller level, and in the root list when there is none, whatever the
\* number of headlines between a headline and its next sibling.
C18_TocNesting ==
    tpc = "done" =>
        toc = <<ElementNode(to_tag(maker.list_type), <<>>, <<>>, EntriesUnder(0, 1))>>

\* The elements of a tag among the nodes and their descendants, in pre-order.
RECURSIVE ElementsOf(_, _)
ElementsOf(tag, nodes) ==
    IF nodes = <<>> THEN <<>>
    ELSE (IF nodes[1].node # "Element" THEN <<>>
          ELSE (IF nodes[1].tag = tag THEN <<nodes[1]>> ELSE <<>>)
               \o ElementsOf(tag, nodes[1].children))
         \o ElementsOf(tag, Tail(nodes))

\* The anchor the TOC owes to a headline of the document.
AnchorOfHeadline(h) ==
    ElementNode("A", <<>>, <<(<<"#">> \o h.id[1])>>, <<TextNode(get_text(h.children))>>)

\* C19: the returned TOC is exactly one list element; it holds one `li` with
\* one anchor for every headline within the configured depth, in document
\* order, each anchor with href `#` and the id attached to its headline and
\* with the text of the headline.
C19_TocCompleteness ==
    tpc = "done" =>
        /\ Len(toc) = 1
        /\ toc[1].node = "Element"
        /\ toc[1].tag = to_tag(maker.list_type)
        /\ Len(ElementsOf("Li", toc)) = Len(VisitedHeadlines)
        /\ \A i \in 1..Len(ElementsOf("Li", toc)) :
              Len(ElementsOf("A", <<ElementsOf("Li", toc)[i].children[1]>>)) = 1
        /\ ElementsOf("A", toc) =
              [k \in 1..Len(VisitedHeadlines) |-> AnchorOfHeadline(VisitedHeadlines[k])]

\* The headline is deeper than the configured level.
Deeper(n) == HeadlineLevelOf(n) > maker.level

NotDeeper(n) == ~Deeper(n)

\* The nodes as they are handed to make_toc: no element has an id yet.
WithoutIds(nodes) ==
    [i \in 1..Len(nodes) |->
        IF nodes[i].node = "Element" THEN [nodes[i] EXCEPT !.id = <<>>] ELSE nodes[i]]

\* make_toc for the document from which the deeper headlines are taken out.
ShallowToc == make_toc(maker, SelectSeq(WithoutIds(document), NotDeeper))

\* The headline has an entry in the returned TOC: an anchor to its id.
InToc(h) ==
    /\ h.id # <<>>
    /\ \E k \in 1..Len(ElementsOf("A", toc)) :
          ElementsOf("A", toc)[k].href = <<(<<"#">> \o h.id[1])>>

\* C20: a headline is included in the TOC exactly when its level is at most
\* the configured level, which is 3 by default; a deeper headline gets no id
\* and no entry, reserves no id, and is no boundary of the nesting: the ids
\* and the TOC are those of the document without the deeper headlines.
C20_TocDepthFilter ==
    /\ MakeTocDefault.level = 3
    /\ \A i \in 1..(node - 1) :
          HeadlineLevelOf(document[i]) >= 1 =>
              /\ (document[i].id # <<>>) <=> (HeadlineLevelOf(document[i]) <= maker.level)
              /\ Deeper(document[i]) => document[i].id = <<>>
    /\ EntriesInOrder
    /\ set = {list[k][3] : k \in 1..Len(list)}
    /\ tpc = "done" =>
          /\ SelectSeq(document, NotDeeper) = ShallowToc.root
          /\ toc = ShallowToc.toc
          /\ \A i \in 1..Len(document) :
                HeadlineLevelOf(document[i]) >= 1 =>
                    (InToc(document[i]) <=> (HeadlineLevelOf(document[i]) <= maker.level))

(***************************************************************************)
(* Claims about the utilities of Executor, checked under CallSpec.         *)
(***************************************************************************)
\* The number of tokens before the first one whose kind is not in K.
LeadingCount(s, K) ==
    Cardinality({i \in 1..Len(s) : \A j \in 1..i : s[j].kind \in K})

\* 1 for every leading Space and 2 for every leading Tab.
BothWidth(s) ==
    LeadingCount(s, {"Space", "Tab"})
    + Cardinality({i \in 1..LeadingCount(s, {"Space", "Tab"}) : s[i].kind = "Tab"})

IndentLevelReturned == call = "indent_level" /\ ppc # "calling"

\* C21: indent_level returns (s div n, s mod n) under Space(n) for a line of
\* s leading Space tokens, for every s and every n of the configuration;
\* (t, 0) under Tab for t leading Tab tokens; (w div 2, w mod 2) under Both,
\* w being 1 for every leading Space and 2 for every leading Tab.
C21_IndentArithmetic ==
    IndentLevelReturned =>
        /\ ppc = "ok"
        /\ CASE config.list_indent_style.k = "Space" ->
                   /\ config.list_indent_style.n # 0
                   /\ tree = <<LeadingCount(tokens, {"Space"}) \div config.list_indent_style.n,
                               LeadingCount(tokens, {"Space"}) % config.list_indent_style.n>>
             [] config.list_indent_style.k = "Tab" ->
                   tree = <<LeadingCount(tokens, {"Tab"}), 0>>
             [] OTHER ->
                   tree = <<BothWidth(tokens) \div 2, BothWidth(tokens) % 2>>

ReduceIndentReturned == call = "reduce_indent" /\ ppc # "calling"

\* The whole of the line but leading Space and Tab tokens.
LeadingWhiteCut(line, out) ==
    \E k \in 0..Len(line) :
        /\ out = Drop(line, k)
        /\ \A i \in 1..k : line[i].kind \in {"Space", "Tab"}

\* C22: reduce_indent takes one indent unit, and with format the remainder
\* too, off every line of at least one unit, leaves every line of 0 units as
\* it is, keeps every Break in its place, removes nothing but leading Space
\* and Tab tokens, and takes no slice past the end of a line.
C22_ReduceIndent ==
    ReduceIndentReturned =>
        /\ ppc = "ok"
        /\ Len(SplitLines(tree)) = Len(SplitLines(tokens))
        /\ \A i \in 1..Len(SplitLines(tokens)) :
              /\ LeadingWhiteCut(SplitLines(tokens)[i], SplitLines(tree)[i])
              /\ SplitLines(tree)[i] =
                    IF Units(SplitLines(tokens)[i]) = 0 THEN SplitLines(tokens)[i]
                    ELSE DropWidth(SplitLines(tokens)[i],
                             UnitWidth + (IF flag THEN Remainder(SplitLines(tokens)[i])
                                          ELSE 0))

(***************************************************************************)
(* Claims about the block productions, checked under ParseSpec.            *)
(***************************************************************************)
\* The production reports success with a strictly shorter suffix of the
\* slice, or does not report success.
Progresses(r, slice) ==
    r.tag = "some" =>
        /\ Len(r.rest) < Len(slice)
        /\ r.rest = Drop(slice, Len(slice) - Len(r.rest))

\* The result of the first of the productions, in their priority order, that
\* does not report no match on the slice.
RECURSIVE FirstSuccess(_)
FirstSuccess(results) ==
    IF results = <<>> THEN NoMatch
    ELSE IF results[1].tag # "none" THEN results[1]
    ELSE FirstSuccess(Tail(results))

\* C23: on every slice block_tree hands to the productions, a production
\* (headline, bullet_list, ordered_list, blockquote, paragraph) that reports
\* success returns a strictly shorter suffix of that slice, and after a
\* production that reports no match the next one sees the same slice.
C23_ProductionProgress ==
    (ppc = "parsing" /\ rest # <<>>) =>
        /\ Progresses(headline(config, rest), rest)
        /\ Progresses(bullet_list(config, rest), rest)
        /\ Progresses(ordered_list(config, rest), rest)
        /\ Progresses(blockquote(config, rest), rest)
        /\ Progresses(paragraph(config, rest), rest)
        /\ not_paragraph(config, rest) =
              FirstSuccess(<<headline(config, rest), bullet_list(config, rest),
                             ordered_list(config, rest), blockquote(config, rest)>>)
        /\ Production(config, rest) =
              FirstSuccess(<<not_paragraph(config, rest), paragraph(config, rest)>>)

(***************************************************************************)
(* Claims about the lookahead, checked under CallSpec.                     *)
(***************************************************************************)
\* The tokens without their leading Space and Tab tokens.
WithoutLeadingWhite(s) == Drop(s, LeadingCount(s, {"Space", "Tab"}))

\* The tokens begin with 1 to 6 Pound tokens followed by a Space.
BeginsHeadline(s) ==
    \E n \in 1..6 :
        /\ Len(s) > n
        /\ \A i \in 1..n : s[i].kind = "Pound"
        /\ s[n + 1].kind = "Space"

\* The tokens begin with a Gt, with a Hyphen and a Space, or with a Text of
\* ASCII digits, a Dot and a Space.
BeginsQuoteOrList(s) ==
    \/ Len(s) >= 1 /\ s[1].kind = "Gt"
    \/ Len(s) >= 2 /\ s[1].kind = "Hyphen" /\ s[2].kind = "Space"
    \/ /\ Len(s) >= 3
       /\ s[1].kind = "Text"
       /\ \A i \in 1..Len(s[1].text) : s[1].text[i] \in Digits
       /\ s[2].kind = "Dot"
       /\ s[3].kind = "Space"

BeginsBlockItem(s) == BeginsHeadline(s) \/ BeginsQuoteOrList(s)

MaybeBlockItemReturned == call = "maybe_block_item" /\ ppc # "calling"

\* C24: maybe_block_item(tokens, trim) is true exactly when the tokens,
\* without their leading Space and Tab tokens if and only if trim is true,
\* begin with 1 to 6 Pound tokens and a Space, with a Gt, with a Hyphen and a
\* Space, or with a Text of ASCII digits, a Dot and a Space; it is false for
\* any other content and for the empty slice.
C24_LookaheadBoundary ==
    MaybeBlockItemReturned =>
        /\ ppc = "ok"
        /\ tree = <<BeginsBlockItem(IF flag THEN WithoutLeadingWhite(tokens) ELSE tokens)>>

(***************************************************************************)
(* Claims about the trees of parse, checked under ParseSpec.               *)
(***************************************************************************)
\* The levels of the Headline items among the block items, those in block
\* quotes and in the children of list items included.
RECURSIVE LevelsOfBlocks(_)
RECURSIVE LevelsOfListItems(_)
LevelsOfBlock(item) ==
    CASE item.t = "Headline" -> {item.level}
      [] item.t = "BlockQuote" -> LevelsOfBlocks(item.root)
      [] item.t \in {"BulletList", "OrderedList"} -> LevelsOfListItems(item.items)
      [] OTHER -> {}

LevelsOfListItems(items) ==
    IF items = <<>> THEN {}
    ELSE LevelsOfBlocks(items[1].children) \cup LevelsOfListItems(Tail(items))

LevelsOfBlocks(items) ==
    IF items = <<>> THEN {}
    ELSE LevelsOfBlock(items[1]) \cup LevelsOfBlocks(Tail(items))

\* C25: every Headline item of a tree returned by parse, at any depth, has a
\* level in 1..6, a level for which ElementTag::headline yields a tag.
C25_HeadlineLevel ==
    ppc = "done" =>
        \A l \in LevelsOfBlocks(tree) : l \in 1..6 /\ headline_tag(l) # <<>>

\* parse has returned a tree whose first item is a block quote or a list
\* with a Headline of level 6 in it.
C25_Witness ==
    /\ ppc = "done"
    /\ tree # <<>>
    /\ tree[1].t \in {"BlockQuote", "BulletList"}
    /\ 6 \in LevelsOfBlocks(tree)

\* No Text item of the inline tree is empty, no two Text items are next to
\* each other, and the same holds within its Italic and Strong items.
RECURSIVE WellMerged(_)
WellMerged(root) ==
    /\ \A i \in 1..Len(root) : root[i].t = "Text" => root[i].text # <<>>
    /\ \A i \in 1..(Len(root) - 1) : ~(root[i].t = "Text" /\ root[i + 1].t = "Text")
    /\ \A i \in 1..Len(root) : root[i].t \in {"Italic", "Strong"} => WellMerged(root[i].root)

\* The inline trees of the block items, labels of list items included, are
\* well merged.
RECURSIVE BlocksMerged(_)
BlocksMerged(items) ==
    \A i \in 1..Len(items) :
        CASE items[i].t \in {"Paragraph", "Headline"} -> WellMerged(items[i].root)
          [] items[i].t = "BlockQuote" -> BlocksMerged(items[i].root)
          [] items[i].t \in {"BulletList", "OrderedList"} ->
                \A k \in 1..Len(items[i].items) :
                    /\ WellMerged(items[i].items[k].name)
                    /\ BlocksMerged(items[i].items[k].children)
          [] OTHER -> TRUE

NotStarChar(c) == c # "*"

\* The characters of the Text items of an inline tree, those within Italic
\* and Strong items included, in order, less the `*` characters.
RECURSIVE Letters(_)
Letters(root) ==
    IF root = <<>> THEN <<>>
    ELSE (CASE root[1].t = "Text" -> SelectSeq(root[1].text, NotStarChar)
            [] root[1].t \in {"Italic", "Strong"} -> Letters(root[1].root)
            [] OTHER -> <<>>)
         \o Letters(Tail(root))

\* The characters of the tokens that are neither Star nor Break, in order.
RECURSIVE LiteralOf(_)
LiteralOf(toks) ==
    IF toks = <<>> THEN <<>>
    ELSE (IF toks[1].kind \in {"Star", "Break"} THEN <<>> ELSE toks[1].text)
         \o LiteralOf(Tail(toks))

\* C26: in every inline tree the parser builds (paragraphs, headlines, the
\* content of emphasis, labels of list items) no two consecutive items are
\* Text and no Text is empty; the literal tokens are accumulated into the
\* Text items in token order.
C26_TextMerging ==
    /\ BlocksMerged(tree)
    /\ inline_tree(rest).tag = "ok" =>
          /\ WellMerged(inline_tree(rest).root)
          /\ Letters(inline_tree(rest).root) = LiteralOf(rest)

\* The last item of the tree is a paragraph or a headline of several inline
\* items, one of them a Text made of more than one token.
C26_Witness ==
    /\ ppc \in {"parsing", "done"}
    /\ tree # <<>>
    /\ Last(tree).t \in {"Paragraph", "Headline"}
    /\ Len(Last(tree).root) >= 2
    /\ \E i \in 1..Len(Last(tree).root) :
          Last(tree).root[i].t = "Text" /\ Len(Last(tree).root[i].text) >= 2

(***************************************************************************)
(* More claims about the table of contents, checked under TocSpec.         *)
(***************************************************************************)
\* What a step of make_toc does to the document: nothing, or one id more for
\* the node the loop is at, a headline within the configured depth at the
\* top of the document, with nothing else of that node changed.
TocFrameStep ==
    /\ Len(document') = Len(document)
    /\ \A i \in 1..Len(document) :
          \/ document'[i] = document[i]
          \/ /\ i = node
             /\ WithinDepth(document[i])
             /\ Len(document'[i].id) = Len(document[i].id) + 1
             /\ document'[i] = [document[i] EXCEPT !.id = document'[i].id]
             /\ SubSeq(document'[i].id, 1, Len(document[i].id)) = document[i].id
    /\ \A i \in 1..Len(document) :
          (i = node /\ tpc = "loop" /\ WithinDepth(document[i])) =>
              document'[i] # document[i]

\* Every anchor of the returned TOC is that of a headline at the top of the
\* document.
TopLevelEntriesOnly ==
    tpc = "done" =>
        \A k \in 1..Len(ElementsOf("A", toc)) :
            \E i \in 1..Len(document) :
                /\ WithinDepth(document[i])
                /\ document[i].id # <<>>
                /\ ElementsOf("A", toc)[k] = AnchorOfHeadline(document[i])

\* C27: make_toc changes the document only by appending exactly one id to
\* each top-level headline within the configured depth; the tag, children
\* and order of every node, every other node and every headline nested in
\* another element stay as they are, and a nested headline gets no id and no
\* entry.
C27_TocFrame == [][TocFrameStep]_vars /\ []TopLevelEntriesOnly

\* make_toc has returned for a document with a headline that got an id, then
\* a block quote with a headline of the same text in it, then a headline.
C27_Witness ==
    /\ tpc = "done"
    /\ \E i \in 2..(Len(document) - 1) :
          /\ document[i].node = "Element"
          /\ document[i].tag = "Blockquote"
          /\ document[i].children[1].id = <<>>
          /\ WithinDepth(document[i - 1])
          /\ Len(document[i - 1].id) = 1
          /\ WithinDepth(document[i + 1])
          /\ Len(document[i + 1].id) = 1

\* The positions of the nodes of the document that have an id attached.
WithId == {i \in 1..Len(document) : document[i].node = "Element" /\ document[i].id # <<>>}

\* C28: the ids attached within one call of make_toc are pairwise distinct,
\* for texts that end in digits too, and the set of the attached ids is the
\* set of used ids.
C28_TocIdUniqueness ==
    /\ \A i \in WithId : Len(document[i].id) = 1
    /\ \A i, j \in WithId : i # j => document[i].id[1] # document[j].id[1]
    /\ set = {document[i].id[1] : i \in WithId}

\* make_toc has returned for headlines of the texts A, A and A1, in this
\* order: the ids are A, A1 and A11.
C28_Witness ==
    /\ tpc = "done"
    /\ Len(list) >= 3
    /\ \E k \in 3..Len(list) :
          /\ list[k][2] = <<"A", "1">>
          /\ list[k][3] = <<"A", "1", "1">>
          /\ list[k - 1][3] = <<"A", "1">>
          /\ list[k - 2][3] = <<"A">>

(***************************************************************************)
(* More claims about the lexer pipeline, checked under LexSpec.            *)
(***************************************************************************)
CutterDone == lpc \in {"rejoin", "done"}

NotBlank(t) == ~IsBlank(t)

\* out is s with some of its Space and Tab tokens deleted.
RECURSIVE BlanksDeleted(_, _)
BlanksDeleted(s, out) ==
    IF s = <<>> THEN out = <<>>
    ELSE \/ out # <<>> /\ out[1] = s[1] /\ BlanksDeleted(Tail(s), Tail(out))
         \/ IsBlank(s[1]) /\ BlanksDeleted(Tail(s), out)

\* The Space or Tab token at i is followed on its line by a token that is
\* neither Space, Tab nor Break.
BeforeContent(s, i) ==
    /\ IsBlank(s[i])
    /\ \E k \in (i + 1)..Len(s) :
          /\ s[k].kind # "Break"
          /\ ~IsBlank(s[k])
          /\ \A j \in (i + 1)..(k - 1) : IsBlank(s[j])

\* A Break of s at i is followed by one or more Space/Tab tokens and then by
\* a Break or by the end of s.
BlankLineAfter(s, i) ==
    /\ s[i].kind = "Break"
    /\ i < Len(s)
    /\ IsBlank(s[i + 1])
    /\ \E k \in (i + 1)..Len(s) :
          /\ \A j \in (i + 1)..k : IsBlank(s[j])
          /\ k = Len(s) \/ s[k + 1].kind = "Break"

\* C29: what the blank-line normalizer yields is what it was given with only
\* Space and Tab tokens deleted; in it no Break is followed by one or more
\* Space/Tab tokens and then a Break or the end; and no Space or Tab that
\* stands before content on its line is deleted.
C29_NormalizerShape ==
    CutterDone =>
        /\ BlanksDeleted(joined, cut)
        /\ SelectSeq(cut, NotBlank) = SelectSeq(joined, NotBlank)
        /\ \A i \in 1..Len(cut) : ~BlankLineAfter(cut, i)
        /\ Cardinality({i \in 1..Len(cut) : BeforeContent(cut, i)})
              = Cardinality({i \in 1..Len(joined) : BeforeContent(joined, i)})

\* The normalizer has deleted a token and has kept a Space or Tab that
\* stands before a Text token.
C29_Witness ==
    /\ CutterDone
    /\ Len(cut) < Len(joined)
    /\ \E i \in 1..(Len(cut) - 1) : IsBlank(cut[i]) /\ cut[i + 1].kind = "Text"

(***************************************************************************)
(* More claims about the list productions, checked under CallSpec.         *)
(***************************************************************************)
\* The slice begins with the marker of an item of the list: Hyphen, Space
\* for a bullet list; a Text of digits, Dot, Space for an ordered list.
BeginsMarker(list_call, aligned) ==
    IF list_call = "bullet_list"
    THEN /\ Len(aligned) >= 2
         /\ aligned[1].kind = "Hyphen"
         /\ aligned[2].kind = "Space"
    ELSE /\ Len(aligned) >= 3
         /\ aligned[1].kind = "Text"
         /\ aligned[2].kind = "Dot"
         /\ aligned[3].kind = "Space"
         /\ AllDigits(aligned[1].text)

MarkerWidth(list_call) == IF list_call = "bullet_list" THEN 2 ELSE 3

AcceptedSoFar(items, rest_) == [tag |-> "ok", items |-> items, rest |-> rest_]

NoAcceptance == [tag |-> "panic", items |-> <<>>, rest |-> <<>>]

\* The items accepted one after the other from rest_ and the remainder they
\* leave, where anything that is not an item with a body, a remainder
\* shorter than a marker included, ends the list.
RECURSIVE AcceptedItems(_, _, _, _)
AcceptedItems(list_call, cfg, rest_, items) ==
    IF rest_ = <<>> THEN AcceptedSoFar(items, rest_)
    ELSE LET input3 == align_indent(rest_, cfg.list_indent_style,
                                    cfg.list_indent_rule)
         IN  IF input3.tag = "panic" THEN NoAcceptance
             ELSE IF ~BeginsMarker(list_call, input3.toks)
             THEN AcceptedSoFar(items, rest_)
             ELSE LET until == get_until_maybe_block_item(
                                   cfg, Drop(rest_, MarkerWidth(list_call)))
                  IN  IF until.tag = "panic" THEN NoAcceptance
                      ELSE IF until.front = <<>>
                      THEN AcceptedSoFar(items, rest_)
                      ELSE LET li == list_item(cfg, until.front)
                           IN  IF li.tag # "ok" THEN NoAcceptance
                               ELSE AcceptedItems(list_call, cfg, until.back,
                                                  Append(items, li.item))

ListOf(list_call, items) ==
    IF list_call = "bullet_list" THEN BulletList(items) ELSE OrderedList(items)

ListCallReturned ==
    /\ call \in {"bullet_list", "ordered_list"}
    /\ ppc \in {"some", "none"}

\* C30: a call of bullet_list or ordered_list that has accepted at least one
\* item returns the list of exactly the accepted items together with the
\* remainder that was not consumed, whatever follows the last accepted item,
\* a remainder shorter than a list marker included.
C30_ListResultStability ==
    ListCallReturned =>
        \A acc \in {AcceptedItems(call, config, tokens, <<>>)} :
            (acc.tag = "ok" /\ acc.items # <<>>) =>
                /\ ppc = "some"
                /\ tree = <<ListOf(call, acc.items)>>
                /\ rest = acc.rest

====
